---------------------------- MODULE Spec2Model ----------------------------
(***************************************************************************)
(* StickerGenie pixel-segmentation engine: the mask generators, the        *)
(* morphology operators and the sticker pipeline of                        *)
(* utils/backgroundExtractor.ts, and the segment detector of               *)
(* utils/slicingUtil.ts.                                                    *)
(*                                                                         *)
(* An image is width w, height h and data, a function from the linear      *)
(* pixel index 0 .. w*h-1 to the colour <<r, g, b>> (the code reads        *)
(* data[4i], data[4i+1], data[4i+2]; alpha is never read).  A mask is a    *)
(* function from the same indices to {0, 1}: 0 background, 1 foreground.   *)
(***************************************************************************)
EXTENDS Integers, Sequences, FiniteSets

VARIABLES
    pc,         \* the entry point that ran last / the position inside it
    w, h,       \* image (or mask) width and height
    data,       \* source pixels: [0 .. w*h-1 -> <<r, g, b>>]
    config,     \* ExtractionConfig / ProcessorOptions / operator arguments,
                \* or the state of the SpriteCutter component
    arg,        \* the mask handed to the operation that ran last, or the
                \* internal state of the operation that is running
    mask,       \* the mask the operation returned (or left in place)
    rects,      \* detectSegments' Rect list, or SpriteCutter's detectedRects
    sprite      \* processSticker's result: a sprite, an error, or none yet

vars == <<pc, w, h, data, config, arg, mask, rects, sprite>>

---------------------------------------------------------------------------
(* Bounds of the model.                                                    *)

MaxW == 3
MaxH == 5
MaxPixels == 10

(* Image sizes explored: every w x h with w*h <= MaxPixels.                *)
Sizes == {s \in (1..MaxW) \X (1..MaxH) : s[1] * s[2] <= MaxPixels}

(* The colours pixels are drawn from.  (13,84,204) lies at squared         *)
(* distance 13^2 + 84^2 + 204^2 = 221^2 from black, which is exactly the   *)
(* threshold (50 * 4.42)^2 of tolerance 50.                                *)
Black == <<0, 0, 0>>
EdgeColour == <<13, 84, 204>>
White == <<255, 255, 255>>
Palette == {Black, EdgeColour, White}
StickerPalette == {Black, EdgeColour}

(* Tolerances explored (the configuration allows 0..100).                  *)
Tolerances == {0, 49, 50, 100}

None == <<>>

(* No result yet.                                                          *)
NoSprite == [kind |-> "none"]

---------------------------------------------------------------------------
(* Helpers.                                                                *)

Pixels(w_, h_) == 0 .. (w_ * h_ - 1)

Abs(x) == IF x < 0 THEN -x ELSE x

Max(a, b) == IF a >= b THEN a ELSE b

Min(a, b) == IF a <= b THEN a ELSE b

Sq(x) == x * x

(* Images of a given size over a palette.                                  *)
Images(w_, h_, palette) == [Pixels(w_, h_) -> palette]

(* All masks of a given size.                                              *)
Masks(w_, h_) == [Pixels(w_, h_) -> {0, 1}]

(* dist = (r-bgR)**2 + (g-bgG)**2 + (b-bgB)**2                             *)
DistSq(c, bg) == Sq(c[1] - bg[1]) + Sq(c[2] - bg[2]) + Sq(c[3] - bg[3])

(* dist <= threshSq with t = tolerance * 4.42, threshSq = t * t.  Both     *)
(* sides are scaled by 100^2 to stay in the integers; for the integer      *)
(* tolerances 0..100 the double-precision comparison of the code gives     *)
(* the same answer for every integer dist.                                 *)
WithinThreshMutLt(dist, tolerance) == dist * 10000 < Sq(tolerance * 442)

WithinThresh(dist, tolerance) == dist * 10000 <= Sq(tolerance * 442)

(* The neighbour list [i-1, i+1, i-w, i+w] every traversal of the code     *)
(* builds from the linear index.                                           *)
Neighbors(i, w_) == <<i - 1, i + 1, i - w_, i + w_>>

---------------------------------------------------------------------------
(* generateFloodFillMask                                                   *)

(* One neighbour n of the popped pixel i: in range, passes the wrap guard  *)
(* |nx - x| <= 1, not yet visited, and within the threshold of the         *)
(* reference colour data[0].                                               *)
(* The acceptance test with the colour comparison left out.                *)
FloodAcceptsMutNoColour(i, n, visited, data_, w_, h_, tolerance) ==
    /\ n >= 0 /\ n < w_ * h_
    /\ ~(Abs((n % w_) - (i % w_)) > 1)
    /\ visited[n] = 0

FloodAccepts(i, n, visited, data_, w_, h_, tolerance) ==
    /\ n >= 0 /\ n < w_ * h_
    /\ ~(Abs((n % w_) - (i % w_)) > 1)
    /\ visited[n] = 0
    /\ WithinThresh(DistSq(data_[n], data_[0]), tolerance)

(* The for-loop over the neighbours of i, from position k: st is           *)
(* <<stack, visited>>.                                                     *)
RECURSIVE FloodNeighbors(_, _, _, _, _, _, _)
FloodNeighbors(i, k, st, data_, w_, h_, tolerance) ==
    IF k > 4 THEN st
    ELSE LET n == Neighbors(i, w_)[k]
         IN IF FloodAccepts(i, n, st[2], data_, w_, h_, tolerance)
            THEN FloodNeighbors(i, k + 1,
                     <<Append(st[1], n), [st[2] EXCEPT ![n] = 1]>>,
                     data_, w_, h_, tolerance)
            ELSE FloodNeighbors(i, k + 1, st, data_, w_, h_, tolerance)

(* while (stack.length) { i = stack.pop(); ... }: returns visited.         *)
RECURSIVE FloodLoop(_, _, _, _, _)
FloodLoop(st, data_, w_, h_, tolerance) ==
    IF Len(st[1]) = 0 THEN st[2]
    ELSE LET i == st[1][Len(st[1])]
             popped == <<SubSeq(st[1], 1, Len(st[1]) - 1), st[2]>>
         IN FloodLoop(FloodNeighbors(i, 1, popped, data_, w_, h_, tolerance),
                      data_, w_, h_, tolerance)

(* The four seed positions, all marked visited before the loop.            *)
CornerSeeds(w_, h_) == <<0, w_ - 1, (h_ - 1) * w_, (h_ * w_) - 1>>

Corners(w_, h_) == {CornerSeeds(w_, h_)[k] : k \in 1..4}

generateFloodFillMask(data_, w_, h_, tolerance) ==
    LET stack == CornerSeeds(w_, h_)
        visited0 == [i \in Pixels(w_, h_) |->
                        IF i \in Corners(w_, h_) THEN 1 ELSE 0]
        visited == FloodLoop(<<stack, visited0>>, data_, w_, h_, tolerance)
    IN [i \in Pixels(w_, h_) |-> IF visited[i] = 1 THEN 0 ELSE 1]

---------------------------------------------------------------------------
(* generateGlobalMask                                                      *)

generateGlobalMask(data_, w_, h_, tolerance) ==
    [i \in Pixels(w_, h_) |->
        IF WithinThresh(DistSq(data_[i], data_[0]), tolerance) THEN 0 ELSE 1]

---------------------------------------------------------------------------
(* Specification of the mask generators: an image and a tolerance are      *)
(* drawn, then either generator is applied to them.                        *)

InitMask ==
    /\ pc = "input"
    /\ \E s \in Sizes :
          /\ w = s[1]
          /\ h = s[2]
          /\ data \in Images(s[1], s[2], Palette)
    /\ \E t \in Tolerances : config = [tolerance |-> t]
    /\ arg = None
    /\ mask = None
    /\ rects = None
    /\ sprite = NoSprite

RunFloodFill ==
    /\ pc = "input"
    /\ pc' = "flood"
    /\ mask' = generateFloodFillMask(data, w, h, config.tolerance)
    /\ UNCHANGED <<w, h, data, config, arg, rects, sprite>>

RunGlobal ==
    /\ pc = "input"
    /\ pc' = "global"
    /\ mask' = generateGlobalMask(data, w, h, config.tolerance)
    /\ UNCHANGED <<w, h, data, config, arg, rects, sprite>>

NextMask == RunFloodFill \/ RunGlobal

SpecMask == InitMask /\ [][NextMask]_vars

---------------------------------------------------------------------------
(* Specification of the traversal of generateFloodFillMask, one turn of    *)
(* while (stack.length) per step.  arg is the traversal state: the stack,  *)
(* the visited array and, for each pixel, how many times it was popped.    *)

MaxFlood == 6

FloodSizes == {s \in Sizes : s[1] * s[2] <= MaxFlood}

FloodTolerances == {0, 50}

InitFlood ==
    /\ pc = "flooding"
    /\ \E s \in FloodSizes :
          /\ w = s[1]
          /\ h = s[2]
          /\ data \in Images(s[1], s[2], Palette)
          /\ arg = [stack |-> CornerSeeds(s[1], s[2]),
                    visited |-> [i \in Pixels(s[1], s[2]) |->
                                    IF i \in Corners(s[1], s[2])
                                    THEN 1 ELSE 0],
                    pops |-> [i \in Pixels(s[1], s[2]) |-> 0]]
    /\ \E t \in FloodTolerances : config = [tolerance |-> t]
    /\ mask = None
    /\ rects = None
    /\ sprite = NoSprite

(* The turn that pushes a neighbour without marking it visited.            *)
FloodTurnMutNoMark ==
    /\ pc = "flooding"
    /\ Len(arg.stack) > 0
    /\ LET i == arg.stack[Len(arg.stack)]
           popped == <<SubSeq(arg.stack, 1, Len(arg.stack) - 1), arg.visited>>
           st == FloodNeighbors(i, 1, popped, data, w, h, config.tolerance)
       IN arg' = [stack |-> st[1], visited |-> arg.visited,
                  pops |-> [arg.pops EXCEPT ![i] = @ + 1]]
    /\ UNCHANGED <<pc, w, h, data, config, mask, rects, sprite>>

(* const i = stack.pop() and the loop over its neighbours.                 *)
FloodTurn ==
    /\ pc = "flooding"
    /\ Len(arg.stack) > 0
    /\ LET i == arg.stack[Len(arg.stack)]
           popped == <<SubSeq(arg.stack, 1, Len(arg.stack) - 1), arg.visited>>
           st == FloodNeighbors(i, 1, popped, data, w, h, config.tolerance)
       IN arg' = [stack |-> st[1], visited |-> st[2],
                  pops |-> [arg.pops EXCEPT ![i] = @ + 1]]
    /\ UNCHANGED <<pc, w, h, data, config, mask, rects, sprite>>

(* The stack is empty: the inversion loop and return mask.                 *)
FloodReturn ==
    /\ pc = "flooding"
    /\ Len(arg.stack) = 0
    /\ pc' = "flood"
    /\ mask' = [i \in Pixels(w, h) |-> IF arg.visited[i] = 1 THEN 0 ELSE 1]
    /\ UNCHANGED <<w, h, data, config, arg, rects, sprite>>

NextFlood == FloodTurn \/ FloodReturn

SpecFlood == InitFlood /\ [][NextFlood]_vars

(* The call runs to completion once started: nothing else is scheduled     *)
(* between two turns of a synchronous loop.                                *)
SpecFloodLive == SpecFlood /\ WF_vars(NextFlood)

---------------------------------------------------------------------------
(* erode, dilate                                                           *)

MaxPasses == 2

(* erode without the curr[i] === 1 guard: every pixel is rewritten from    *)
(* its neighbours.                                                         *)
ErodePassMutNoGuard(curr, next, w_) ==
    [i \in DOMAIN curr |->
        IF \E k \in 1..4 :
              LET idx == Neighbors(i, w_)[k]
              IN idx >= 0 /\ idx < Cardinality(DOMAIN curr) /\ curr[idx] = 0
        THEN 0
        ELSE 1]

(* One pass of erode working in place, pixel after pixel from index i: a   *)
(* pixel cleared earlier in the pass counts as background for the pixels   *)
(* after it.                                                               *)
RECURSIVE ErodeInPlaceFrom(_, _, _)
ErodeInPlaceFrom(i, m, w_) ==
    IF i >= Cardinality(DOMAIN m) THEN m
    ELSE IF /\ m[i] = 1
            /\ \E k \in 1..4 :
                  LET idx == Neighbors(i, w_)[k]
                  IN idx >= 0 /\ idx < Cardinality(DOMAIN m) /\ m[idx] = 0
         THEN ErodeInPlaceFrom(i + 1, [m EXCEPT ![i] = 0], w_)
         ELSE ErodeInPlaceFrom(i + 1, m, w_)

ErodePassMutInPlace(curr, next, w_) == ErodeInPlaceFrom(0, curr, w_)

(* One pass of erode: next[i] = 0 for every i with curr[i] = 1 and some    *)
(* index of [i-1, i+1, i-w, i+w] in range holding 0 in curr.               *)
ErodePass(curr, next, w_) ==
    [i \in DOMAIN curr |->
        IF /\ curr[i] = 1
           /\ \E k \in 1..4 :
                 LET idx == Neighbors(i, w_)[k]
                 IN idx >= 0 /\ idx < Cardinality(DOMAIN curr) /\ curr[idx] = 0
        THEN 0
        ELSE next[i]]

(* for (p = 0; p < passes; p++) { pass; curr.set(next); }                  *)
RECURSIVE ErodeLoop(_, _, _, _, _)
ErodeLoop(p, passes, curr, next, w_) ==
    IF p >= passes THEN curr
    ELSE LET n2 == ErodePass(curr, next, w_)
         IN ErodeLoop(p + 1, passes, n2, n2, w_)

erode(mask_, w_, h_, passes) ==
    IF passes <= 0 THEN mask_
    ELSE ErodeLoop(0, passes, mask_, mask_, w_)

(* dilate without the curr[i] === 0 guard.                                 *)
DilatePassMutNoGuard(curr, next, w_) ==
    [i \in DOMAIN curr |->
        IF \E k \in 1..4 :
              LET idx == Neighbors(i, w_)[k]
              IN idx >= 0 /\ idx < Cardinality(DOMAIN curr) /\ curr[idx] = 1
        THEN 1
        ELSE 0]

(* One pass of dilate: next[i] = 1 for every i with curr[i] = 0 and some   *)
(* index of [i-1, i+1, i-w, i+w] in range holding 1 in curr.               *)
DilatePass(curr, next, w_) ==
    [i \in DOMAIN curr |->
        IF /\ curr[i] = 0
           /\ \E k \in 1..4 :
                 LET idx == Neighbors(i, w_)[k]
                 IN idx >= 0 /\ idx < Cardinality(DOMAIN curr) /\ curr[idx] = 1
        THEN 1
        ELSE next[i]]

RECURSIVE DilateLoop(_, _, _, _, _)
DilateLoop(p, passes, curr, next, w_) ==
    IF p >= passes THEN curr
    ELSE LET n2 == DilatePass(curr, next, w_)
         IN DilateLoop(p + 1, passes, n2, n2, w_)

dilate(mask_, w_, h_, passes) ==
    IF passes <= 0 THEN mask_
    ELSE DilateLoop(0, passes, mask_, mask_, w_)

---------------------------------------------------------------------------
(* fillInternalHoles                                                       *)

(* The border positions in the order the two seeding loops test them:      *)
(* for each x the top then the bottom pixel, for each y the left then      *)
(* the right pixel.                                                        *)
(* The seeding loops with the loop over the left and right columns left    *)
(* out (its positions replaced by the first pixel).                        *)
EdgePositionsMutRowsOnly(w_, h_) ==
    [k \in 1 .. (2 * w_ + 2 * h_) |->
        IF k <= 2 * w_
        THEN LET x == (k - 1) \div 2
             IN IF k % 2 = 1 THEN x ELSE (h_ - 1) * w_ + x
        ELSE 0]

EdgePositions(w_, h_) ==
    [k \in 1 .. (2 * w_ + 2 * h_) |->
        IF k <= 2 * w_
        THEN LET x == (k - 1) \div 2
             IN IF k % 2 = 1 THEN x ELSE (h_ - 1) * w_ + x
        ELSE LET y == (k - 2 * w_ - 1) \div 2
             IN IF (k - 2 * w_) % 2 = 1 THEN y * w_ ELSE y * w_ + w_ - 1]

(* Seeding: every border position holding 0 is pushed and marked.          *)
RECURSIVE SeedEdges(_, _, _, _, _)
SeedEdges(k, st, mask_, w_, h_) ==
    IF k > 2 * w_ + 2 * h_ THEN st
    ELSE LET e == EdgePositions(w_, h_)[k]
         IN IF mask_[e] = 0
            THEN SeedEdges(k + 1,
                     <<Append(st[1], e), [st[2] EXCEPT ![e] = 1]>>,
                     mask_, w_, h_)
            ELSE SeedEdges(k + 1, st, mask_, w_, h_)

FillAccepts(i, n, visited, mask_, w_) ==
    /\ n >= 0 /\ n < Cardinality(DOMAIN mask_)
    /\ visited[n] = 0
    /\ mask_[n] = 0
    /\ Abs((n % w_) - (i % w_)) <= 1

RECURSIVE FillNeighbors(_, _, _, _, _)
FillNeighbors(i, k, st, mask_, w_) ==
    IF k > 4 THEN st
    ELSE LET n == Neighbors(i, w_)[k]
         IN IF FillAccepts(i, n, st[2], mask_, w_)
            THEN FillNeighbors(i, k + 1,
                     <<Append(st[1], n), [st[2] EXCEPT ![n] = 1]>>, mask_, w_)
            ELSE FillNeighbors(i, k + 1, st, mask_, w_)

RECURSIVE FillLoop(_, _, _)
FillLoop(st, mask_, w_) ==
    IF Len(st[1]) = 0 THEN st[2]
    ELSE LET i == st[1][Len(st[1])]
             popped == <<SubSeq(st[1], 1, Len(st[1]) - 1), st[2]>>
         IN FillLoop(FillNeighbors(i, 1, popped, mask_, w_), mask_, w_)

(* fillInternalHoles flipping every unvisited pixel instead of setting     *)
(* the unvisited background ones.                                          *)
(* The call that fills nothing.                                            *)
fillInternalHolesMutNoFill(mask_, w_, h_) == mask_

fillInternalHolesMutFlip(mask_, w_, h_) ==
    LET visited0 == [i \in Pixels(w_, h_) |-> 0]
        seeded == SeedEdges(1, <<<<>>, visited0>>, mask_, w_, h_)
        visited == FillLoop(seeded, mask_, w_)
    IN [i \in DOMAIN mask_ |->
          IF visited[i] = 0 THEN 1 - mask_[i] ELSE mask_[i]]

(* The contents of the mask after the call (it is filled in place).        *)
fillInternalHoles(mask_, w_, h_) ==
    LET visited0 == [i \in Pixels(w_, h_) |-> 0]
        seeded == SeedEdges(1, <<<<>>, visited0>>, mask_, w_, h_)
        visited == FillLoop(seeded, mask_, w_)
    IN [i \in DOMAIN mask_ |->
          IF mask_[i] = 0 /\ visited[i] = 0 THEN 1 ELSE mask_[i]]

---------------------------------------------------------------------------
(* Specification of the morphology engine: a mask is drawn, then erode,    *)
(* dilate and fillInternalHoles are applied to it in any order.  arg is    *)
(* the mask the last operation was handed, mask what it left, config       *)
(* names the operation, its passes and the operation before it.            *)

(* A size with two interior pixels, beside the sizes of the bounds.        *)
MorphSizes == {<<3, 4>>}

InitMorph ==
    /\ pc = "morph"
    /\ \E s \in Sizes \cup MorphSizes :
          /\ w = s[1]
          /\ h = s[2]
          /\ mask \in Masks(s[1], s[2])
    /\ arg = None
    /\ config = [op |-> "none", passes |-> 0, prevOp |-> "none",
                 handed |-> None]
    /\ data = None
    /\ rects = None
    /\ sprite = NoSprite

(* The array handed to erode or dilate, as it stands when the call has     *)
(* returned: curr and next are fresh copies (new Uint8Array(mask)), every  *)
(* write of the loops goes to next or curr, and with passes <= 0 the call  *)
(* returns before writing anything.                                        *)
HandedAfterPasses(mask_, w_, h_, passes) == mask_

(* The array handed to fillInternalHoles when the call has returned: the   *)
(* final loop writes mask[i] = 1 into it.                                  *)
HandedAfterFill(mask_, w_, h_) == fillInternalHoles(mask_, w_, h_)

(* config.handed is the content, after the call, of the array that was     *)
(* handed to it; mask is what the caller holds afterwards (the returned    *)
(* array, or for fillInternalHoles the array it handed in).                *)
DoErode ==
    /\ pc = "morph"
    /\ \E p \in 0..MaxPasses :
          /\ mask' = erode(mask, w, h, p)
          /\ config' = [op |-> "erode", passes |-> p, prevOp |-> config.op,
                        handed |-> HandedAfterPasses(mask, w, h, p)]
    /\ arg' = mask
    /\ UNCHANGED <<pc, w, h, data, rects, sprite>>

DoDilate ==
    /\ pc = "morph"
    /\ \E p \in 0..MaxPasses :
          /\ mask' = dilate(mask, w, h, p)
          /\ config' = [op |-> "dilate", passes |-> p, prevOp |-> config.op,
                        handed |-> HandedAfterPasses(mask, w, h, p)]
    /\ arg' = mask
    /\ UNCHANGED <<pc, w, h, data, rects, sprite>>

DoFillHoles ==
    /\ pc = "morph"
    /\ mask' = fillInternalHoles(mask, w, h)
    /\ config' = [op |-> "fill", passes |-> 0, prevOp |-> config.op,
                 handed |-> HandedAfterFill(mask, w, h)]
    /\ arg' = mask
    /\ UNCHANGED <<pc, w, h, data, rects, sprite>>

NextMorph == DoErode \/ DoDilate \/ DoFillHoles

SpecMorph == InitMorph /\ [][NextMorph]_vars

---------------------------------------------------------------------------
(* processSticker                                                          *)

(* Step 5: the crop-bounds loop over the final mask, from index i; b is    *)
(* [minX, maxX, minY, maxY, hasPixels].                                    *)
RECURSIVE CropBoundsLoop(_, _, _, _)
CropBoundsLoop(i, b, mask_, w_) ==
    IF i >= Cardinality(DOMAIN mask_) THEN b
    ELSE IF mask_[i] = 1
         THEN LET x == i % w_
                  y == i \div w_
              IN CropBoundsLoop(i + 1,
                    [minX |-> IF x < b.minX THEN x ELSE b.minX,
                     maxX |-> IF x > b.maxX THEN x ELSE b.maxX,
                     minY |-> IF y < b.minY THEN y ELSE b.minY,
                     maxY |-> IF y > b.maxY THEN y ELSE b.maxY,
                     hasPixels |-> TRUE],
                    mask_, w_)
         ELSE CropBoundsLoop(i + 1, b, mask_, w_)

(* The crop-bounds loop never finding the mask empty.                      *)
CropBoundsMutAlwaysPixels(mask_, w_, h_) ==
    [CropBoundsLoop(0,
        [minX |-> w_, maxX |-> 0, minY |-> h_, maxY |-> 0, hasPixels |-> FALSE],
        mask_, w_) EXCEPT !.hasPixels = TRUE]

CropBounds(mask_, w_, h_) ==
    CropBoundsLoop(0,
        [minX |-> w_, maxX |-> 0, minY |-> h_, maxY |-> 0, hasPixels |-> FALSE],
        mask_, w_)

(* Step 6: padding = Math.max(config.borderWidth + 20, 40)                 *)
PaddingMutNoFloor(borderWidth) == borderWidth + 20

(* The padding that does not grow with the border.                         *)
PaddingMutFixed(borderWidth) == 40

Padding(borderWidth) == Max(borderWidth + 20, 40)

(* finalSize = maxDim + padding * 2 with maxDim = max(sw, sh)              *)
FinalSize(b, borderWidth) ==
    LET sw == b.maxX - b.minX + 1
        sh == b.maxY - b.minY + 1
        maxDim == Max(sw, sh)
    IN maxDim + (Padding(borderWidth) * 2)

(* Configurations explored.                                                *)
Methods == {"flood_fill", "luma_key"}
StickerTolerances == {0, 50}
BorderWidths == {0, 30}

Configs ==
    [method : Methods, tolerance : StickerTolerances, smartFill : BOOLEAN,
     erosion : 0..MaxPasses, borderWidth : BorderWidths]

InitSticker ==
    /\ pc = "loaded"
    /\ \E s \in Sizes :
          /\ w = s[1]
          /\ h = s[2]
          /\ data \in Images(s[1], s[2], StickerPalette)
    /\ config \in Configs
    /\ arg = None
    /\ mask = None
    /\ rects = None
    /\ sprite = NoSprite

(* 2. Generate Binary Mask                                                 *)
GenerateMask ==
    /\ pc = "loaded"
    /\ pc' = "masked"
    /\ mask' = IF config.method = "luma_key"
               THEN generateGlobalMask(data, w, h, config.tolerance)
               ELSE generateFloodFillMask(data, w, h, config.tolerance)
    /\ UNCHANGED <<w, h, data, config, arg, rects, sprite>>

(* 3. Smart Fill                                                           *)
SmartFill ==
    /\ pc = "masked"
    /\ pc' = "filled"
    /\ mask' = IF config.smartFill THEN fillInternalHoles(mask, w, h) ELSE mask
    /\ UNCHANGED <<w, h, data, config, arg, rects, sprite>>

(* 4. Erosion                                                              *)
Erosion ==
    /\ pc = "filled"
    /\ pc' = "eroded"
    /\ mask' = IF config.erosion > 0 THEN erode(mask, w, h, config.erosion)
               ELSE mask
    /\ UNCHANGED <<w, h, data, config, arg, rects, sprite>>

(* 5. Crop bounds: no foreground pixel throws.                             *)
ThrowNoSubject ==
    /\ pc = "eroded"
    /\ ~CropBounds(mask, w, h).hasPixels
    /\ pc' = "error"
    /\ sprite' = [kind |-> "error", message |-> "No subject detected"]
    /\ UNCHANGED <<w, h, data, config, arg, mask, rects>>

(* 6. Output dimensions and the returned sprite.                           *)
ReturnSprite ==
    /\ pc = "eroded"
    /\ CropBounds(mask, w, h).hasPixels
    /\ pc' = "done"
    /\ LET finalSize == FinalSize(CropBounds(mask, w, h), config.borderWidth)
       IN sprite' = [kind |-> "sprite", width |-> finalSize,
                     height |-> finalSize]
    /\ UNCHANGED <<w, h, data, config, arg, mask, rects>>

NextSticker ==
    GenerateMask \/ SmartFill \/ Erosion \/ ThrowNoSubject \/ ReturnSprite

SpecSticker == InitSticker /\ [][NextSticker]_vars

---------------------------------------------------------------------------
(* processSticker, steps 6 to 8: the pixels of the returned sprite.  An    *)
(* output pixel is <<r, g, b, a>>; a fresh ImageData is transparent black. *)

Transparent == <<0, 0, 0, 0>>

OpaqueWhite == <<255, 255, 255, 255>>

(* offX = Math.floor((finalSize - sw) / 2), likewise offY with sh.         *)
Offset(finalSize, extent) == (finalSize - extent) \div 2

(* The cropped mask placed into the centre of a finalSize x finalSize      *)
(* buffer of zeros: borderBuf[(offY+y)*finalSize + (offX+x)] = 1 for every *)
(* x < sw, y < sh with mask[(minY+y)*w + (minX+x)] = 1.                    *)
BorderBuf(mask_, w_, b, finalSize) ==
    LET sw == b.maxX - b.minX + 1
        sh == b.maxY - b.minY + 1
        offX == Offset(finalSize, sw)
        offY == Offset(finalSize, sh)
    IN [j \in Pixels(finalSize, finalSize) |->
          IF \E y \in 0 .. (sh - 1), x \in 0 .. (sw - 1) :
                /\ j = (offY + y) * finalSize + (offX + x)
                /\ mask_[(b.minY + y) * w_ + (b.minX + x)] = 1
          THEN 1 ELSE 0]

(* The border layer with the diagonal neighbours of the subject added.     *)
BorderLayerMutDiagonal(mask_, w_, b, finalSize, borderWidth) ==
    LET buf == BorderBuf(mask_, w_, b, finalSize)
        one == dilate(buf, finalSize, finalSize, borderWidth)
    IN [j \in DOMAIN one |->
          IF \E d \in {finalSize + 1, finalSize - 1} :
                \/ (j - d >= 0 /\ buf[j - d] = 1)
                \/ (j + d < finalSize * finalSize /\ buf[j + d] = 1)
          THEN 1 ELSE one[j]]

(* const dilated = dilate(borderBuf, finalSize, finalSize, borderWidth)    *)
BorderLayer(mask_, w_, b, finalSize, borderWidth) ==
    dilate(BorderBuf(mask_, w_, b, finalSize), finalSize, finalSize,
           borderWidth)

(* Step 7: the canvas after the optional border: white opaque where the    *)
(* dilated layer is 1, untouched (transparent) elsewhere and when          *)
(* borderWidth is 0 (no layer is built then).                              *)
PaintBorder(dilated, finalSize, borderWidth) ==
    IF borderWidth > 0
    THEN [j \in Pixels(finalSize, finalSize) |->
            IF dilated[j] = 1 THEN OpaqueWhite ELSE Transparent]
    ELSE [j \in Pixels(finalSize, finalSize) |-> Transparent]

(* Step 8 writing the source colour under every pixel of the crop box,     *)
(* whatever the mask holds there.                                          *)
CompositeSubjectMutWholeBox(canvas, data_, mask_, w_, b, finalSize) ==
    LET sw == b.maxX - b.minX + 1
        sh == b.maxY - b.minY + 1
        offX == Offset(finalSize, sw)
        offY == Offset(finalSize, sh)
    IN [j \in DOMAIN canvas |->
          LET x == (j % finalSize) - offX
              y == (j \div finalSize) - offY
          IN IF x >= 0 /\ x < sw /\ y >= 0 /\ y < sh
             THEN LET c == data_[(b.minY + y) * w_ + (b.minX + x)]
                  IN <<c[1], c[2], c[3], 255>>
             ELSE canvas[j]]

(* Step 8: for every x < sw, y < sh with mask[srcIdx] = 1 the destination  *)
(* pixel (offX+x, offY+y) takes the source RGB and alpha 255.              *)
CompositeSubject(canvas, data_, mask_, w_, b, finalSize) ==
    LET sw == b.maxX - b.minX + 1
        sh == b.maxY - b.minY + 1
        offX == Offset(finalSize, sw)
        offY == Offset(finalSize, sh)
    IN [j \in DOMAIN canvas |->
          LET x == (j % finalSize) - offX
              y == (j \div finalSize) - offY
          IN IF /\ x >= 0 /\ x < sw /\ y >= 0 /\ y < sh
                /\ mask_[(b.minY + y) * w_ + (b.minX + x)] = 1
             THEN LET c == data_[(b.minY + y) * w_ + (b.minX + x)]
                  IN <<c[1], c[2], c[3], 255>>
             ELSE canvas[j]]

---------------------------------------------------------------------------
(* Specification of processSticker with the pixels of the sprite: the      *)
(* pipeline of SpecSticker on smaller images, its last step taken in two:  *)
(* the border layer (arg, None without a border), then the sprite with     *)
(* its pixels.                                                             *)

MaxSubject == 4

CompositeSizes == {s \in Sizes : s[1] * s[2] <= MaxSubject}

CompositeBorders == {0, 1, 2}

CompositeConfigs ==
    [method : Methods, tolerance : {0}, smartFill : BOOLEAN,
     erosion : {0, 1}, borderWidth : CompositeBorders]

InitComposite ==
    /\ pc = "loaded"
    /\ \E s \in CompositeSizes :
          /\ w = s[1]
          /\ h = s[2]
          /\ data \in Images(s[1], s[2], StickerPalette)
    /\ config \in CompositeConfigs
    /\ arg = None
    /\ mask = None
    /\ rects = None
    /\ sprite = NoSprite

(* 5 to 7. Crop bounds found, output dimensions, the optional border       *)
(* layer.                                                                  *)
GenerateBorder ==
    /\ pc = "eroded"
    /\ CropBounds(mask, w, h).hasPixels
    /\ pc' = "bordered"
    /\ LET b == CropBounds(mask, w, h)
           finalSize == FinalSize(b, config.borderWidth)
       IN arg' = IF config.borderWidth > 0
                 THEN BorderLayer(mask, w, b, finalSize, config.borderWidth)
                 ELSE None
    /\ UNCHANGED <<w, h, data, config, mask, rects, sprite>>

(* 7 and 8. The border painted, the subject composited on top, the sprite  *)
(* returned.                                                               *)
CompositeSprite ==
    /\ pc = "bordered"
    /\ pc' = "returned"
    /\ LET b == CropBounds(mask, w, h)
           finalSize == FinalSize(b, config.borderWidth)
       IN sprite' =
            [kind |-> "sprite", width |-> finalSize, height |-> finalSize,
             pixels |->
                CompositeSubject(
                    PaintBorder(arg, finalSize, config.borderWidth),
                    data, mask, w, b, finalSize)]
    /\ UNCHANGED <<w, h, data, config, arg, mask, rects>>

NextComposite ==
    \/ GenerateMask \/ SmartFill \/ Erosion \/ ThrowNoSubject
    \/ GenerateBorder \/ CompositeSprite

SpecComposite == InitComposite /\ [][NextComposite]_vars

---------------------------------------------------------------------------
(* Specification of processSticker with wide borders: the same pipeline    *)
(* on the smallest images, the dilation of the border layer taken one      *)
(* pass of its loop per step.  arg is the state of the dilation: curr,     *)
(* the buffer (None when no layer is built), and p, the passes done.       *)

MaxBordered == 3

BorderedSizes == {s \in Sizes : s[1] * s[2] <= MaxBordered}

WideBorders == {0, 2, 20, 21}

BorderedConfigs ==
    [method : {"luma_key"}, tolerance : {0}, smartFill : {FALSE},
     erosion : {0}, borderWidth : WideBorders]

InitBordered ==
    /\ pc = "loaded"
    /\ \E s \in BorderedSizes :
          /\ w = s[1]
          /\ h = s[2]
          /\ data \in Images(s[1], s[2], StickerPalette)
    /\ config \in BorderedConfigs
    /\ arg = None
    /\ mask = None
    /\ rects = None
    /\ sprite = NoSprite

(* 5 to 7. Crop bounds found, output dimensions, the cropped mask placed   *)
(* in the centre of borderBuf; dilate copies it into curr and next.        *)
PlaceBorderBuf ==
    /\ pc = "eroded"
    /\ CropBounds(mask, w, h).hasPixels
    /\ pc' = "dilating"
    /\ LET b == CropBounds(mask, w, h)
           finalSize == FinalSize(b, config.borderWidth)
       IN arg' = [p |-> 0,
                  curr |-> IF config.borderWidth > 0
                           THEN BorderBuf(mask, w, b, finalSize)
                           ELSE None]
    /\ UNCHANGED <<w, h, data, config, mask, rects, sprite>>

(* One turn of for (p = 0; p < passes; p++) in dilate, curr.set(next)      *)
(* included.                                                               *)
DilateBorderPass ==
    /\ pc = "dilating"
    /\ arg.p < config.borderWidth
    /\ LET finalSize == FinalSize(CropBounds(mask, w, h), config.borderWidth)
       IN arg' = [p |-> arg.p + 1,
                  curr |-> DilatePass(arg.curr, arg.curr, finalSize)]
    /\ UNCHANGED <<pc, w, h, data, config, mask, rects, sprite>>

(* dilate has returned curr (or was not called): 7 and 8, the border       *)
(* painted, the subject composited on top, the sprite returned.            *)
PaintSprite ==
    /\ pc = "dilating"
    /\ arg.p >= config.borderWidth
    /\ pc' = "returned"
    /\ LET b == CropBounds(mask, w, h)
           finalSize == FinalSize(b, config.borderWidth)
       IN sprite' =
            [kind |-> "sprite", width |-> finalSize, height |-> finalSize,
             pixels |->
                CompositeSubject(
                    PaintBorder(arg.curr, finalSize, config.borderWidth),
                    data, mask, w, b, finalSize)]
    /\ UNCHANGED <<w, h, data, config, arg, mask, rects>>

NextBordered ==
    \/ GenerateMask \/ SmartFill \/ Erosion \/ ThrowNoSubject
    \/ PlaceBorderBuf \/ DilateBorderPass \/ PaintSprite

SpecBordered == InitBordered /\ [][NextBordered]_vars

---------------------------------------------------------------------------
(* Numbers of a Rect.  detectSegments emits JavaScript numbers: IEEE 754   *)
(* doubles, which need not be integers (width / cols).  A number is never  *)
(* negative here.  Zero is [e |-> 0, m |-> <<>>]; a positive number is     *)
(* [e, m] with m its significand bits, most significant first, m[1] = 1,   *)
(* no trailing 0 and at most 53 bits: the value is the sum of              *)
(* m[i] * 2^(e + 1 - i).  The same record with a longer m is an exact,     *)
(* not yet rounded, intermediate result.                                   *)

Zero == [e |-> 0, m |-> <<>>]

RECURSIVE Pow2(_)
Pow2(k) == IF k <= 0 THEN 1 ELSE 2 * Pow2(k - 1)

(* The binary digits of a positive integer, most significant first.        *)
RECURSIVE IntBits(_)
IntBits(q) == IF q = 0 THEN <<>> ELSE Append(IntBits(q \div 2), q % 2)

(* The integer a digit sequence spells.                                    *)
RECURSIVE BitsValue(_)
BitsValue(bits) ==
    IF Len(bits) = 0 THEN 0
    ELSE 2 * BitsValue(SubSeq(bits, 1, Len(bits) - 1)) + bits[Len(bits)]

RECURSIVE Strip(_)
Strip(bits) ==
    IF Len(bits) > 0 /\ bits[Len(bits)] = 0
    THEN Strip(SubSeq(bits, 1, Len(bits) - 1))
    ELSE bits

(* Leading zero digits dropped, the exponent following.                    *)
RECURSIVE Normalize(_, _)
Normalize(e, bits) ==
    IF Len(bits) = 0 THEN Zero
    ELSE IF bits[1] = 0 THEN Normalize(e - 1, Tail(bits))
    ELSE [e |-> e, m |-> Strip(bits)]

(* One added at the last digit: the carry out followed by the digits.      *)
RECURSIVE Increment(_)
Increment(bits) ==
    IF Len(bits) = 0 THEN <<1>>
    ELSE IF bits[Len(bits)] = 0
         THEN <<0>> \o [bits EXCEPT ![Len(bits)] = 1]
         ELSE Append(Increment(SubSeq(bits, 1, Len(bits) - 1)), 0)

(* The double nearest to an exact value (round to nearest, ties to even,   *)
(* the rounding of every JavaScript arithmetic operation).                 *)
RoundToDouble(v) ==
    IF Len(v.m) <= 53 THEN v
    ELSE LET head == SubSeq(v.m, 1, 53)
             rest == SubSeq(v.m, 54, Len(v.m))
             up == /\ rest[1] = 1
                   /\ (head[53] = 1 \/ \E k \in 2..Len(rest) : rest[k] = 1)
         IN IF ~up THEN [e |-> v.e, m |-> Strip(head)]
            ELSE Normalize(v.e + 1, Increment(head))

(* An integer n >= 0 as a number (exact below 2^53).                       *)
Num(n) == Normalize(Len(IntBits(n)) - 1, IntBits(n))

(* The least s with n * 2^s >= d.                                          *)
RECURSIVE ShiftsToReach(_, _)
ShiftsToReach(n, d) == IF n >= d THEN 0 ELSE 1 + ShiftsToReach(2 * n, d)

(* k further quotient digits of r / d (r < d), then one more digit that    *)
(* is 1 iff the division left a remainder.                                 *)
RECURSIVE DivBits(_, _, _)
DivBits(r, d, k) ==
    IF k = 0 THEN (IF r > 0 THEN <<1>> ELSE <<>>)
    ELSE IF 2 * r >= d THEN <<1>> \o DivBits(2 * r - d, d, k - 1)
         ELSE <<0>> \o DivBits(2 * r, d, k - 1)

(* n / d for integers n >= 0, d > 0, as JavaScript evaluates it.           *)
Quot(n, d) ==
    IF n = 0 THEN Zero
    ELSE LET s == ShiftsToReach(n, d)
             n2 == n * Pow2(s)
             ib == IntBits(n2 \div d)
         IN RoundToDouble(Normalize(Len(ib) - 1 - s,
                                    ib \o DivBits(n2 % d, d, 55)))

(* The digit of weight 2^p.                                                *)
BitAt(x, p) ==
    IF p <= x.e /\ p > x.e - Len(x.m) THEN x.m[x.e - p + 1] ELSE 0

(* The digits of x + y from weight 2^p up to 2^(hi + 1), most significant  *)
(* first.                                                                  *)
RECURSIVE AddFrom(_, _, _, _, _)
AddFrom(x, y, p, hi, carry) ==
    IF p > hi THEN <<carry>>
    ELSE LET t == BitAt(x, p) + BitAt(y, p) + carry
         IN IF t >= 2 THEN Append(AddFrom(x, y, p + 1, hi, 1), t - 2)
            ELSE Append(AddFrom(x, y, p + 1, hi, 0), t)

(* x + y exactly.                                                          *)
ExactSum(x, y) ==
    IF x = Zero THEN y
    ELSE IF y = Zero THEN x
    ELSE LET hi == Max(x.e, y.e)
             lo == Min(x.e - Len(x.m) + 1, y.e - Len(y.m) + 1)
         IN Normalize(hi + 1, AddFrom(x, y, lo, hi, 0))

(* c * x exactly, for an integer c >= 0.                                   *)
RECURSIVE ExactTimes(_, _)
ExactTimes(c, x) ==
    IF c = 0 \/ x = Zero THEN Zero
    ELSE LET half == ExactTimes(c \div 2, x)
             dbl == IF half = Zero THEN Zero ELSE [half EXCEPT !.e = @ + 1]
         IN IF c % 2 = 1 THEN ExactSum(x, dbl) ELSE dbl

(* x + y and c * x as JavaScript evaluates them.                           *)
Plus(x, y) == RoundToDouble(ExactSum(x, y))

Times(c, x) == RoundToDouble(ExactTimes(c, x))

IsInt(q) == q = Zero \/ q.e - Len(q.m) + 1 >= 0

(* The value of an integer number.                                         *)
IntOf(q) == BitsValue(q.m) * Pow2(q.e - Len(q.m) + 1)

(* q < 1                                                                   *)
LessThanOne(q) == q = Zero \/ q.e < 0

(* The integer part of q.                                                  *)
Floor(q) ==
    IF LessThanOne(q) THEN 0
    ELSE IF IsInt(q) THEN IntOf(q)
    ELSE BitsValue(SubSeq(q.m, 1, q.e + 1))

---------------------------------------------------------------------------
(* detectSegments, grid mode                                               *)

(* customGrid lines are multiples of 1 / GridDen: the line k / GridDen is  *)
(* held as its numerator k, and a pixel position p * width as the          *)
(* numerator k * width over GridDen.  (The products are exact in double    *)
(* precision when GridDen is a power of two, and otherwise never within    *)
(* rounding error of a half-integer, so Math.round sees the same value.)   *)
GridDen == 4

MaxLines == 2

(* Math.round of the position a / GridDen: the nearest integer, halves up. *)
Round(a) == (2 * a + GridDen) \div (2 * GridDen)

(* Array.prototype.sort((a,b) => a-b): ascending numeric order.            *)
RECURSIVE Insert(_, _)
Insert(sorted, v) ==
    IF Len(sorted) = 0 THEN <<v>>
    ELSE IF v < sorted[Len(sorted)]
         THEN Append(Insert(SubSeq(sorted, 1, Len(sorted) - 1), v),
                     sorted[Len(sorted)])
         ELSE Append(sorted, v)

RECURSIVE SortFrom(_, _, _)
SortFrom(k, seq, sorted) ==
    IF k > Len(seq) THEN sorted
    ELSE SortFrom(k + 1, seq, Insert(sorted, seq[k]))

(* The list left as the caller ordered it.                                 *)
SortAscMutUnsorted(seq) == seq

SortAsc(seq) == SortFrom(1, seq, <<>>)

(* xs = [0, ...lines.map(p => p * size), size].sort((a,b) => a-b)          *)
CutPositions(lines, size) ==
    SortAsc(<<0>> \o [k \in 1..Len(lines) |-> lines[k] * size]
                 \o <<size * GridDen>>)

(* The two nested loops with the columns outermost: a column-major order.  *)
CustomGridRectsMutColumnMajor(width, height, customGrid) ==
    LET xs == CutPositions(customGrid.xLines, width)
        ys == CutPositions(customGrid.yLines, height)
        nc == Len(xs) - 1
        nr == Len(ys) - 1
    IN [k \in 1 .. (nr * nc) |->
          LET c == ((k - 1) \div nr) + 1
              r == ((k - 1) % nr) + 1
          IN [x |-> Num(Round(xs[c])),
              y |-> Num(Round(ys[r])),
              w |-> Num(Round(xs[c + 1] - xs[c])),
              h |-> Num(Round(ys[r + 1] - ys[r]))]]

(* The two nested loops over adjacent pairs, rows outermost.               *)
CustomGridRects(width, height, customGrid) ==
    LET xs == CutPositions(customGrid.xLines, width)
        ys == CutPositions(customGrid.yLines, height)
        nc == Len(xs) - 1
        nr == Len(ys) - 1
    IN [k \in 1 .. (nr * nc) |->
          LET r == ((k - 1) \div nc) + 1
              c == ((k - 1) % nc) + 1
          IN [x |-> Num(Round(xs[c])),
              y |-> Num(Round(ys[r])),
              w |-> Num(Round(xs[c + 1] - xs[c])),
              h |-> Num(Round(ys[r + 1] - ys[r]))]]

(* Even distribution: rows x cols cells of cellW = width / cols by         *)
(* cellH = height / rows, the cell of row r and column c at                *)
(* (c * cellW, r * cellH).                                                 *)
EvenGridRects(width, height, options) ==
    LET rows == Max(1, options.rows)
        cols == Max(1, options.cols)
        cellW == Quot(width, cols)
        cellH == Quot(height, rows)
    IN [k \in 1 .. (rows * cols) |->
          LET r == (k - 1) \div cols
              c == (k - 1) % cols
          IN [x |-> Times(c, cellW),
              y |-> Times(r, cellH),
              w |-> cellW,
              h |-> cellH]]

---------------------------------------------------------------------------
(* detectSegments, smart mode                                              *)

minArea == 400

(* const tolerance = options.tolerance || 20                               *)
SmartTolerance(options) ==
    IF options.tolerance = 0 THEN 20 ELSE options.tolerance

(* const pad = options.trim || 10                                          *)
SmartPad(options) == IF options.trim = 0 THEN 10 ELSE options.trim

(* isContent[i] = 1 iff colorDist(pixel i, pixel 0) > tolerance * 3, the   *)
(* distance being the square root of the squared distance.                 *)
IsContent(data_, width, height, options) ==
    [i \in Pixels(width, height) |->
        IF DistSq(data_[i], data_[0]) > Sq(SmartTolerance(options) * 3)
        THEN 1 ELSE 0]

SmartAccepts(idx, n, visited, isContent, width, height) ==
    /\ n >= 0 /\ n < width * height
    /\ visited[n] = 0
    /\ isContent[n] = 1
    /\ Abs((n % width) - (idx % width)) <= 1

(* The neighbour loop of one popped pixel; st is <<stack, visited>>.       *)
RECURSIVE SmartNeighbors(_, _, _, _, _, _)
SmartNeighbors(idx, k, st, isContent, width, height) ==
    IF k > 4 THEN st
    ELSE LET n == Neighbors(idx, width)[k]
         IN IF SmartAccepts(idx, n, st[2], isContent, width, height)
            THEN SmartNeighbors(idx, k + 1,
                     <<Append(st[1], n), [st[2] EXCEPT ![n] = 1]>>,
                     isContent, width, height)
            ELSE SmartNeighbors(idx, k + 1, st, isContent, width, height)

(* One turn of while (stack.length): pops a pixel, counts it, widens the   *)
(* bounding box and pushes its neighbours.  c is the traversal state       *)
(* [stack, visited, count, minX, maxX, minY, maxY].                        *)
ComponentStep(c, isContent, width, height) ==
    LET idx == c.stack[Len(c.stack)]
        x == idx % width
        y == idx \div width
        popped == <<SubSeq(c.stack, 1, Len(c.stack) - 1), c.visited>>
        st == SmartNeighbors(idx, 1, popped, isContent, width, height)
    IN [stack |-> st[1], visited |-> st[2],
        count |-> c.count + 1,
        minX |-> IF x < c.minX THEN x ELSE c.minX,
        maxX |-> IF x > c.maxX THEN x ELSE c.maxX,
        minY |-> IF y < c.minY THEN y ELSE c.minY,
        maxY |-> IF y > c.maxY THEN y ELSE c.maxY]

(* At most `turns` turns of the loop, stopping when the stack is empty.    *)
(* The turns are split in halves so that the evaluation nests only         *)
(* logarithmically deep in the number of pixels of a component.            *)
RECURSIVE ComponentTurns(_, _, _, _, _)
ComponentTurns(turns, c, isContent, width, height) ==
    IF Len(c.stack) = 0 THEN c
    ELSE IF turns = 1 THEN ComponentStep(c, isContent, width, height)
    ELSE ComponentTurns(turns - (turns \div 2),
             ComponentTurns(turns \div 2, c, isContent, width, height),
             isContent, width, height)

(* The whole loop: turns until the stack is empty.                         *)
RECURSIVE ComponentLoop(_, _, _, _)
ComponentLoop(c, isContent, width, height) ==
    LET c2 == ComponentTurns(width * height, c, isContent, width, height)
    IN IF Len(c2.stack) = 0 THEN c2
       ELSE ComponentLoop(c2, isContent, width, height)

(* The component flood-filled from seed i.                                 *)
Component(i, visited, isContent, width, height) ==
    ComponentLoop(
        [stack |-> <<i>>, visited |-> [visited EXCEPT ![i] = 1],
         count |-> 0, minX |-> i % width, maxX |-> i % width,
         minY |-> i \div width, maxY |-> i \div width],
        isContent, width, height)

(* The raster scan for (i = 0; i < width*height; i++): the next seed is    *)
(* the first pixel at or after `from` that is content and unvisited.       *)
(* Returns the components in discovery order; pixels is the set of pixels  *)
(* the traversal of the component marked visited, each of which it popped  *)
(* and counted once.                                                       *)
RECURSIVE SmartScan(_, _, _, _, _, _)
SmartScan(from, visited, found, isContent, width, height) ==
    LET seeds == {i \in from .. (width * height - 1) :
                     isContent[i] = 1 /\ visited[i] = 0}
    IN IF seeds = {} THEN found
       ELSE LET i == CHOOSE a \in seeds : \A b \in seeds : a <= b
                c == Component(i, visited, isContent, width, height)
            IN SmartScan(i + 1, c.visited,
                   Append(found, [count |-> c.count,
                                  minX |-> c.minX, maxX |-> c.maxX,
                                  minY |-> c.minY, maxY |-> c.maxY,
                                  pixels |-> {p \in Pixels(width, height) :
                                                 /\ c.visited[p] = 1
                                                 /\ visited[p] = 0}]),
                   isContent, width, height)

SmartComponents(data_, width, height, options) ==
    SmartScan(0, [i \in Pixels(width, height) |-> 0], <<>>,
              IsContent(data_, width, height, options), width, height)

(* if (count > minArea): the component is kept.                            *)
KeepsMutAtLeast(count) == count >= minArea

Keeps(count) == count > minArea

(* The padded Rect with the far sides left unclamped.                      *)
PaddedRectMutNoFarClamp(c, pad, width, height) ==
    [x |-> Num(Max(0, c.minX - pad)),
     y |-> Num(Max(0, c.minY - pad)),
     w |-> Num((c.maxX + pad) - Max(0, c.minX - pad)),
     h |-> Num((c.maxY + pad) - Max(0, c.minY - pad))]

(* The padded, clamped Rect of a kept component.                           *)
PaddedRect(c, pad, width, height) ==
    [x |-> Num(Max(0, c.minX - pad)),
     y |-> Num(Max(0, c.minY - pad)),
     w |-> Num(Min(width, c.maxX + pad) - Max(0, c.minX - pad)),
     h |-> Num(Min(height, c.maxY + pad) - Max(0, c.minY - pad))]

RECURSIVE KeptRects(_, _, _, _, _, _)
KeptRects(k, comps, out, pad, width, height) ==
    IF k > Len(comps) THEN out
    ELSE KeptRects(k + 1, comps,
            IF Keeps(comps[k].count)
            THEN Append(out, PaddedRect(comps[k], pad, width, height))
            ELSE out,
            pad, width, height)

SmartRects(data_, width, height, options) ==
    KeptRects(1, SmartComponents(data_, width, height, options), <<>>,
              SmartPad(options), width, height)

---------------------------------------------------------------------------
(* detectSegments                                                          *)

detectSegments(data_, width, height, options) ==
    IF options.mode = "grid"
    THEN IF options.customGrid.use
         THEN CustomGridRects(width, height, options.customGrid)
         ELSE EvenGridRects(width, height, options)
    ELSE IF options.mode = "smart"
         THEN SmartRects(data_, width, height, options)
         ELSE <<>>

---------------------------------------------------------------------------
(* sliceImage                                                              *)

(* The skip test with the height left out.                                 *)
DegenerateMutWidthOnly(rect) == LessThanOne(rect.w)

(* if (rect.w < 1 || rect.h < 1) continue;                                 *)
Degenerate(rect) == LessThanOne(rect.w) \/ LessThanOne(rect.h)

(* The loop over the Rects from position k: a Rect that is not skipped     *)
(* gets a crop canvas (a canvas dimension is the integer part of the       *)
(* number assigned to it) and, the 2-D context and the blob being          *)
(* available, a sprite of width rect.w and height rect.h.                  *)
RECURSIVE SliceLoop(_, _, _)
SliceLoop(k, rs, sprites) ==
    IF k > Len(rs) THEN sprites
    ELSE IF Degenerate(rs[k]) THEN SliceLoop(k + 1, rs, sprites)
    ELSE SliceLoop(k + 1, rs,
            Append(sprites,
                   [width |-> rs[k].w, height |-> rs[k].h,
                    canvasWidth |-> Floor(rs[k].w),
                    canvasHeight |-> Floor(rs[k].h)]))

sliceImage(data_, width, height, options) ==
    SliceLoop(1, detectSegments(data_, width, height, options), <<>>)

---------------------------------------------------------------------------
(* Specification of grid detection: a buffer size and grid options are     *)
(* drawn (explicit lines in any order, or a rows x cols split), then       *)
(* detectSegments runs.  Grid mode reads no pixel.                         *)

GridSides == {1, 3, 4}

MaxCells == 6

RECURSIVE SeqsUpTo(_, _)
SeqsUpTo(S, n) ==
    IF n = 0 THEN {<<>>}
    ELSE SeqsUpTo(S, n - 1) \cup [1..n -> S]

GridOptions ==
    {[mode |-> "grid", tolerance |-> 20, trim |-> 10, rows |-> 2, cols |-> 2,
      customGrid |-> [use |-> TRUE, xLines |-> xl, yLines |-> yl]] :
        xl \in SeqsUpTo(0..GridDen, MaxLines),
        yl \in SeqsUpTo(0..GridDen, MaxLines)}
    \cup
    {[mode |-> "grid", tolerance |-> 20, trim |-> 10, rows |-> r, cols |-> c,
      customGrid |-> [use |-> FALSE, xLines |-> <<>>, yLines |-> <<>>]] :
        r \in 0..MaxCells, c \in 0..MaxCells}

InitGrid ==
    /\ pc = "options"
    /\ w \in GridSides
    /\ h \in GridSides
    /\ config \in GridOptions
    /\ data = None
    /\ arg = None
    /\ mask = None
    /\ rects = None
    /\ sprite = NoSprite

DetectGrid ==
    /\ pc = "options"
    /\ pc' = "detected"
    /\ rects' = detectSegments(data, w, h, config)
    /\ UNCHANGED <<w, h, data, config, arg, mask, sprite>>

(* sliceImage on the same input: rects is the list its call of            *)
(* detectSegments returned, sprite the sprites it resolved with.           *)
SliceGrid ==
    /\ pc = "options"
    /\ pc' = "sliced"
    /\ rects' = detectSegments(data, w, h, config)
    /\ sprite' = [kind |-> "sprites",
                  list |-> sliceImage(data, w, h, config)]
    /\ UNCHANGED <<w, h, data, config, arg, mask>>

NextGrid == DetectGrid \/ SliceGrid

SpecGrid == InitGrid /\ [][NextGrid]_vars

---------------------------------------------------------------------------
(* Specification of smart detection on the boundary scenario and its       *)
(* neighbours: a 100 x 100 black buffer holding one solid white rectangle  *)
(* of a x b pixels with its top-left corner at (x0, y0).                   *)

ScenarioImage(side, x0, y0, a, b) ==
    [i \in Pixels(side, side) |->
        IF /\ (i % side) >= x0 /\ (i % side) < x0 + a
           /\ (i \div side) >= y0 /\ (i \div side) < y0 + b
        THEN White ELSE Black]

ScenarioOrigins == {<<40, 40>>, <<5, 78>>, <<79, 5>>}
ScenarioExtents == {20, 21}
ScenarioTolerances == {0, 20, 100}
ScenarioTrims == {0, 10, 50}

InitSmart ==
    /\ pc = "options"
    /\ w = 100
    /\ h = 100
    /\ \E o \in ScenarioOrigins, a, b \in ScenarioExtents :
          data = ScenarioImage(100, o[1], o[2], a, b)
    /\ \E t \in ScenarioTolerances, tr \in ScenarioTrims :
          config = [mode |-> "smart", tolerance |-> t, trim |-> tr,
                    rows |-> 2, cols |-> 2,
                    customGrid |-> [use |-> FALSE, xLines |-> <<>>,
                                    yLines |-> <<>>]]
    /\ arg = None
    /\ mask = None
    /\ rects = None
    /\ sprite = NoSprite

(* mask is the isContent map the call built, arg the components it        *)
(* labelled.                                                               *)
DetectSmart ==
    /\ pc = "options"
    /\ pc' = "detected"
    /\ mask' = IsContent(data, w, h, config)
    /\ arg' = SmartComponents(data, w, h, config)
    /\ rects' = detectSegments(data, w, h, config)
    /\ UNCHANGED <<w, h, data, config, sprite>>

NextSmart == DetectSmart

SpecSmart == InitSmart /\ [][NextSmart]_vars

---------------------------------------------------------------------------
(* Specification of smart detection on small buffers of close colours,     *)
(* for the content map: (10,20,20) lies at distance exactly 30 = 10 * 3    *)
(* from black and (20,40,40) at distance exactly 60 = 20 * 3.              *)

Near30 == <<10, 20, 20>>
Near60 == <<20, 40, 40>>
ContentPalette == {Black, Near30, Near60, White}
ContentTolerances == {0, 10, 20, 100}

InitContent ==
    /\ pc = "options"
    /\ \E s \in CompositeSizes :
          /\ w = s[1]
          /\ h = s[2]
          /\ data \in Images(s[1], s[2], ContentPalette)
    /\ \E t \in ContentTolerances :
          config = [mode |-> "smart", tolerance |-> t, trim |-> 10,
                    rows |-> 2, cols |-> 2,
                    customGrid |-> [use |-> FALSE, xLines |-> <<>>,
                                    yLines |-> <<>>]]
    /\ arg = None
    /\ mask = None
    /\ rects = None
    /\ sprite = NoSprite

SpecContent == InitContent /\ [][NextSmart]_vars

---------------------------------------------------------------------------
(* SpriteCutter, the grid lines and the mouse.  config is the state of     *)
(* the component: mode, cols, xLines, yLines, dragging, hoveredLine.  The  *)
(* canvas is CanvasSide pixels wide and high; a line at the normalised     *)
(* position k / CanvasSide is written as the integer k (for the values     *)
(* explored k / CanvasSide * CanvasSide = k and                            *)
(* i / cols = (i * CanvasSide / cols) / CanvasSide hold exactly in double  *)
(* arithmetic, and the order of the quotients is the order of the k).      *)
(* arg records, from a mouse-down to the next mouse-up, the lists as they  *)
(* stood at the mouse-down.                                                *)

CanvasSide == 60

MaxCols == 3

(* Mouse coordinates relative to the canvas, two of them outside it.       *)
MouseCoords == {-10, 0, 10, 20, 30, 40, 50, 60, 70}

HIT_DIST == 10

NoLine == [type |-> "none", index |-> 0]

(* The lines i / count for i = 1 .. count - 1.                             *)
EvenLines(count) ==
    [i \in 1 .. (count - 1) |-> (i * CanvasSide) \div count]

InitCutter ==
    /\ pc = "cutter"
    /\ config = [mode |-> "smart", cols |-> 2,
                 xLines |-> EvenLines(2), yLines |-> EvenLines(2),
                 dragging |-> NoLine, hoveredLine |-> NoLine]
    /\ arg = None
    /\ w = CanvasSide
    /\ h = CanvasSide
    /\ data = None
    /\ mask = None
    /\ rects = None
    /\ sprite = NoSprite

(* onClick={() => setMode(...)}                                            *)
SetMode ==
    /\ pc = "cutter"
    /\ \E m \in {"smart", "grid"} :
          /\ m # config.mode
          /\ config' = [config EXCEPT !.mode = m]
    /\ UNCHANGED <<pc, w, h, data, arg, mask, rects, sprite>>

(* setCols(Math.max(1, parseInt(value))) and the effect on [rows, cols]:   *)
(* the vertical lines are laid out again when their number is not          *)
(* cols - 1.  A drag under way loses its record of the lists.  The         *)
(* values explored start at 2, so that no list is ever empty and a stale   *)
(* index lies at most one position beyond the end of its list.             *)
SetCols ==
    /\ pc = "cutter"
    /\ \E c \in 2..MaxCols :
          /\ c # config.cols
          /\ config' = [config EXCEPT
                           !.cols = c,
                           !.xLines = IF Len(config.xLines) # c - 1
                                      THEN EvenLines(c) ELSE @]
    /\ arg' = None
    /\ UNCHANGED <<pc, w, h, data, mask, rects, sprite>>

(* if (mode !== 'grid' || !hoveredLine) return; setDragging(hoveredLine)   *)
MouseDown ==
    /\ pc = "cutter"
    /\ config.mode = "grid"
    /\ config.hoveredLine # NoLine
    /\ config' = [config EXCEPT !.dragging = config.hoveredLine]
    /\ arg' = [xLines |-> config.xLines, yLines |-> config.yLines,
               grabbed |-> config.hoveredLine]
    /\ UNCHANGED <<pc, w, h, data, mask, rects, sprite>>

(* Math.max(0, Math.min(1, x / canvas.width)), as a number of pixels.      *)
Norm(x) == Max(0, Min(CanvasSide, x))

(* next = [...prev]; next[index] = v, index counted from 0; an index       *)
(* equal to the length appends.                                            *)
SetAt(prev, index, v) ==
    IF index < Len(prev) THEN [prev EXCEPT ![index + 1] = v]
    ELSE Append(prev, v)

(* The drag that writes the position without sorting the list.             *)
DraggedMutUnsorted(prev, index, v) == SetAt(prev, index, v)

(* next[dragging.index] = norm; return next.sort((a,b) => a-b)             *)
Dragged(prev, index, v) == SortAsc(SetAt(prev, index, v))

(* The last line of the list within HIT_DIST pixels of the coordinate,     *)
(* as an index counted from 0; -1 when there is none.                      *)
LastHit(lines, coord) ==
    LET hits == {i \in 1..Len(lines) : Abs(lines[i] - coord) < HIT_DIST}
    IN IF hits = {} THEN -1
       ELSE (CHOOSE i \in hits : \A j \in hits : j <= i) - 1

(* Hover detection: the vertical lines first, a horizontal hit            *)
(* overwriting a vertical one.                                             *)
Found(x, y) ==
    IF LastHit(config.yLines, y) >= 0
    THEN [type |-> "y", index |-> LastHit(config.yLines, y)]
    ELSE IF LastHit(config.xLines, x) >= 0
         THEN [type |-> "x", index |-> LastHit(config.xLines, x)]
         ELSE NoLine

(* handleMouseMove while a line is being dragged.                          *)
MouseMoveDragging ==
    /\ pc = "cutter"
    /\ config.mode = "grid"
    /\ config.dragging # NoLine
    /\ \E x \in MouseCoords, y \in MouseCoords :
          config' =
            IF config.dragging.type = "x"
            THEN [config EXCEPT
                    !.xLines = Dragged(@, config.dragging.index, Norm(x))]
            ELSE [config EXCEPT
                    !.yLines = Dragged(@, config.dragging.index, Norm(y))]
    /\ UNCHANGED <<pc, w, h, data, arg, mask, rects, sprite>>

(* handleMouseMove while no line is being dragged.                         *)
MouseMoveHovering ==
    /\ pc = "cutter"
    /\ config.mode = "grid"
    /\ config.dragging = NoLine
    /\ \E x \in MouseCoords, y \in MouseCoords :
          config' = [config EXCEPT !.hoveredLine = Found(x, y)]
    /\ UNCHANGED <<pc, w, h, data, arg, mask, rects, sprite>>

(* handleMouseUp, also bound to onMouseLeave: setDragging(null)            *)
MouseUp ==
    /\ pc = "cutter"
    /\ config' = [config EXCEPT !.dragging = NoLine]
    /\ arg' = None
    /\ UNCHANGED <<pc, w, h, data, mask, rects, sprite>>

NextCutter ==
    \/ SetMode \/ SetCols \/ MouseDown
    \/ MouseMoveDragging \/ MouseMoveHovering \/ MouseUp

SpecCutter == InitCutter /\ [][NextCutter]_vars

---------------------------------------------------------------------------
(* SpriteCutter, the real-time detection loop.  config.options numbers     *)
(* the successive values of the options (mode, tolerance, trim, rows,      *)
(* cols, xLines, yLines) the component was rendered with.  arg.runs lists  *)
(* the runs of the effect, each with the options its closure captured,     *)
(* its `active` flag, its timer and its call of detectSegments;            *)
(* arg.dirty says that a render was committed whose effect has not run     *)
(* yet.  rects is detectedRects, tagged with the options it was computed   *)
(* for (-1: the initial empty list).                                       *)

MaxChanges == 3

NewRun(options) ==
    [options |-> options, active |-> TRUE, timer |-> "pending",
     call |-> "none"]

(* return () => { active = false; clearTimeout(timer); }                   *)
Cleanup(run) ==
    [run EXCEPT !.active = FALSE,
                !.timer = IF @ = "pending" THEN "cleared" ELSE @]

(* The effect of the committed render: the cleanup of the previous run,    *)
(* then a new run with the options of the render.                          *)
Flushed(runs, options) ==
    Append([k \in 1..Len(runs) |->
               IF k = Len(runs) THEN Cleanup(runs[k]) ELSE runs[k]],
           NewRun(options))

(* After mounting: the effect ran once, its timer is set.                  *)
InitDetect ==
    /\ pc = "detect"
    /\ config = [options |-> 0]
    /\ arg = [runs |-> <<NewRun(0)>>, dirty |-> FALSE]
    /\ rects = [options |-> -1]
    /\ w = 0
    /\ h = 0
    /\ data = None
    /\ mask = None
    /\ sprite = NoSprite

(* A setter of one of the options is called and the component renders      *)
(* again.  The effect of an earlier render that is still outstanding runs  *)
(* before the new render is committed.                                     *)
ChangeOption ==
    /\ pc = "detect"
    /\ config.options < MaxChanges
    /\ config' = [options |-> config.options + 1]
    /\ arg' = [runs |-> IF arg.dirty THEN Flushed(arg.runs, config.options)
                        ELSE arg.runs,
               dirty |-> TRUE]
    /\ UNCHANGED <<pc, w, h, data, mask, rects, sprite>>

(* The effect of the last render runs.                                     *)
FlushEffect ==
    /\ pc = "detect"
    /\ arg.dirty
    /\ arg' = [runs |-> Flushed(arg.runs, config.options), dirty |-> FALSE]
    /\ UNCHANGED <<pc, w, h, data, config, mask, rects, sprite>>

(* The timer of a run fires: runDetection builds the options of its        *)
(* closure and calls detectSegments.                                       *)
TimerFires ==
    /\ pc = "detect"
    /\ \E k \in 1..Len(arg.runs) :
          /\ arg.runs[k].timer = "pending"
          /\ arg' = [arg EXCEPT !.runs[k].timer = "fired",
                                !.runs[k].call = "pending"]
    /\ UNCHANGED <<pc, w, h, data, config, mask, rects, sprite>>

(* The completion that writes its result whatever `active` holds.          *)
DetectionCompletesMutNoActiveTest ==
    /\ pc = "detect"
    /\ \E k \in 1..Len(arg.runs) :
          /\ arg.runs[k].call = "pending"
          /\ arg' = [arg EXCEPT !.runs[k].call = "done"]
          /\ rects' = [options |-> arg.runs[k].options]
    /\ UNCHANGED <<pc, w, h, data, config, mask, sprite>>

(* const rects = await detectSegments(...) resumes:                        *)
(* if (active) setDetectedRects(rects)                                     *)
DetectionCompletes ==
    /\ pc = "detect"
    /\ \E k \in 1..Len(arg.runs) :
          /\ arg.runs[k].call = "pending"
          /\ arg' = [arg EXCEPT !.runs[k].call = "done"]
          /\ rects' = IF arg.runs[k].active
                      THEN [options |-> arg.runs[k].options]
                      ELSE rects
    /\ UNCHANGED <<pc, w, h, data, config, mask, sprite>>

NextDetect ==
    ChangeOption \/ FlushEffect \/ TimerFires \/ DetectionCompletes

SpecDetect == InitDetect /\ [][NextDetect]_vars

---------------------------------------------------------------------------
(* Geometry of the pixel grid, stated in two dimensions, against which     *)
(* the linear-index traversals are judged.                                 *)

XOf(i, w_) == i % w_

YOf(i, w_) == i \div w_

(* Up/down/left/right neighbours inside the image.                         *)
Adjacent(i, j, w_) ==
    \/ /\ YOf(i, w_) = YOf(j, w_)
       /\ Abs(XOf(i, w_) - XOf(j, w_)) = 1
    \/ /\ XOf(i, w_) = XOf(j, w_)
       /\ Abs(YOf(i, w_) - YOf(j, w_)) = 1

(* The pixels of `allowed` reachable from `from` by 4-connected steps      *)
(* that enter only pixels of `allowed`.                                    *)
RECURSIVE Reach(_, _, _)
Reach(from, allowed, w_) ==
    LET more == {j \in allowed \ from : \E i \in from : Adjacent(i, j, w_)}
    IN IF more = {} THEN from ELSE Reach(from \cup more, allowed, w_)

(* Pixels whose colour is within the threshold of the pixel at (0,0).      *)
BackgroundColoured ==
    {i \in Pixels(w, h) :
        DistSq(data[i], data[0]) * 10000 <= Sq(config.tolerance * 442)}

---------------------------------------------------------------------------
(* C1: generateFloodFillMask marks a non-corner pixel background exactly   *)
(* when a 4-connected path inside the image leads to it from one of the    *)
(* four corners, entering only pixels within the threshold of the pixel    *)
(* at (0,0); every other non-corner pixel is foreground.  The last pixel   *)
(* of a row and the first pixel of the next row are never neighbours.      *)
C1_FloodFillIsCornerReachability ==
    pc = "flood" =>
        \A i \in Pixels(w, h) \ Corners(w, h) :
            mask[i] = 0 <=>
                i \in Reach(Corners(w, h),
                            BackgroundColoured \cup Corners(w, h), w)

(* The same statement for every width but 2 (where the wrap guard          *)
(* |nx - x| <= 1 cannot tell the row-boundary step from a horizontal one). *)
C1_HoldsOffWidthTwo ==
    (pc = "flood" /\ w # 2) =>
        \A i \in Pixels(w, h) \ Corners(w, h) :
            mask[i] = 0 <=>
                i \in Reach(Corners(w, h),
                            BackgroundColoured \cup Corners(w, h), w)

---------------------------------------------------------------------------
(* C2: generateGlobalMask classifies every pixel on its own: mask[i] = 0   *)
(* iff the squared RGB distance of pixel i to the pixel at (0,0) is        *)
(* <= (tolerance * 4.42)^2 = (tolerance * 221 / 50)^2, else mask[i] = 1;   *)
(* a distance equal to the threshold is background.                        *)
C2_GlobalMaskIsPerPixelTest ==
    pc = "global" =>
        \A i \in Pixels(w, h) :
            /\ mask[i] \in {0, 1}
            /\ mask[i] = 0 <=>
                  2500 * DistSq(data[i], data[0]) <= Sq(221 * config.tolerance)

(* A global mask holding a pixel exactly at the threshold (background), a  *)
(* pixel beyond it (foreground) between two background pixels.             *)
C2_Witness ==
    /\ pc = "global"
    /\ config.tolerance = 50
    /\ \E i, j, k \in Pixels(w, h) :
          /\ i < j /\ j < k
          /\ data[i] = EdgeColour /\ mask[i] = 0
          /\ data[j] = White /\ mask[j] = 1
          /\ data[k] = Black /\ mask[k] = 0

---------------------------------------------------------------------------
Foreground(m) == {i \in DOMAIN m : m[i] = 1}

Uniform == \A i \in Pixels(w, h) : data[i] = data[0]

(* C3: processSticker ends in the error, returning no sprite, exactly      *)
(* when the mask left after generation, optional hole filling and          *)
(* erosion has no foreground pixel; an image of one colour always ends     *)
(* in the error; a returned sprite never has zero width or height.         *)
C3_ErrorIffNoForeground ==
    /\ pc = "error" => (sprite.kind = "error" /\ Foreground(mask) = {})
    /\ pc = "done" =>
          /\ sprite.kind = "sprite"
          /\ Foreground(mask) # {}
          /\ sprite.width >= 1 /\ sprite.height >= 1
    /\ pc = "eroded" =>
          (CropBounds(mask, w, h).hasPixels <=> Foreground(mask) # {})
    /\ (Uniform /\ pc \in {"masked", "filled", "eroded", "error", "done"}) =>
          (pc # "done" /\ Foreground(mask) = {})

(* The error raised for a one-colour image of several pixels, with hole    *)
(* filling and erosion switched on.                                        *)
C3_Witness ==
    /\ pc = "error"
    /\ sprite.kind = "error"
    /\ Uniform
    /\ w >= 2 /\ h >= 2
    /\ config.smartFill /\ config.erosion > 0

---------------------------------------------------------------------------
(* The tight bounding box of the foreground of a mask, in two dimensions.  *)
BoxW(m) ==
    LET xs == {XOf(i, w) : i \in Foreground(m)}
    IN (CHOOSE a \in xs : \A b \in xs : a >= b)
         - (CHOOSE a \in xs : \A b \in xs : a <= b) + 1

BoxH(m) ==
    LET ys == {YOf(i, w) : i \in Foreground(m)}
    IN (CHOOSE a \in ys : \A b \in ys : a >= b)
         - (CHOOSE a \in ys : \A b \in ys : a <= b) + 1

(* C4: a sprite returned by processSticker is square, of side              *)
(* max(boxW, boxH) + 2 * max(borderWidth + 20, 40) for the tight bounding  *)
(* box of the final mask's foreground; the side is at least 81.            *)
C4_SpriteIsPaddedSquare ==
    pc = "done" =>
        /\ sprite.width = sprite.height
        /\ sprite.width =
              Max(BoxW(mask), BoxH(mask))
                + 2 * Max(config.borderWidth + 20, 40)
        /\ sprite.width >= 81

(* A sprite of a non-square subject, once with the padding floor of 40     *)
(* and a subject wider than one pixel.                                     *)
C4_Witness ==
    /\ pc = "done"
    /\ config.borderWidth = 0
    /\ BoxW(mask) >= 2
    /\ BoxH(mask) > BoxW(mask)
    /\ sprite.width = BoxH(mask) + 80

---------------------------------------------------------------------------
Count(m) == Cardinality(Foreground(m))

(* C5: erosion monotonicity: every foreground pixel of erode(mask, p) is   *)
(* a foreground pixel of mask, the foreground count never grows, and       *)
(* erode(mask, 0) is mask.                                                 *)
C5_ErodeMonotone ==
    config.op = "erode" =>
        /\ Foreground(mask) \subseteq Foreground(arg)
        /\ Count(mask) <= Count(arg)
        /\ config.passes = 0 => mask = arg

(* An erosion that removed some foreground and kept some.                  *)
C5_Witness ==
    /\ config.op = "erode"
    /\ config.passes >= 1
    /\ Count(mask) >= 1
    /\ Count(mask) < Count(arg)

---------------------------------------------------------------------------
(* C6: dilation monotonicity: every foreground pixel of mask is a          *)
(* foreground pixel of dilate(mask, p), the foreground count never         *)
(* shrinks, and dilate(mask, 0) is mask.                                   *)
C6_DilateMonotone ==
    config.op = "dilate" =>
        /\ Foreground(arg) \subseteq Foreground(mask)
        /\ Count(mask) >= Count(arg)
        /\ config.passes = 0 => mask = arg

(* A dilation that added foreground and left some background.              *)
C6_Witness ==
    /\ config.op = "dilate"
    /\ config.passes >= 1
    /\ Count(arg) >= 1
    /\ Count(mask) > Count(arg)
    /\ Count(mask) < w * h

---------------------------------------------------------------------------
(* C7: hole-fill idempotence: applying fillInternalHoles to a mask it has  *)
(* already filled changes no pixel.                                        *)
C7_FillIdempotent ==
    config.op = "fill" => fillInternalHoles(mask, w, h) = mask

(* A fill that closed a hole and left border-connected background.         *)
C7_Witness ==
    /\ config.op = "fill"
    /\ mask # arg
    /\ \E i \in Pixels(w, h) : mask[i] = 0

---------------------------------------------------------------------------
RECURSIVE SumAreas(_, _)
SumAreas(rs, k) ==
    IF k > Len(rs) THEN 0
    ELSE IntOf(rs[k].w) * IntOf(rs[k].h) + SumAreas(rs, k + 1)

IntegerRect(r) == IsInt(r.x) /\ IsInt(r.y) /\ IsInt(r.w) /\ IsInt(r.h)

(* The pixel (px, py) lies in Rect r.                                      *)
InRect(px, py, r) ==
    /\ IntOf(r.x) <= px /\ px < IntOf(r.x) + IntOf(r.w)
    /\ IntOf(r.y) <= py /\ py < IntOf(r.y) + IntOf(r.h)

ExplicitGrid ==
    pc = "detected" /\ config.mode = "grid" /\ config.customGrid.use

(* C8: grid partition coverage: with an explicit customGrid whose lines    *)
(* lie in [0,1] the emitted Rects tile the buffer exactly: every pixel     *)
(* lies in exactly one Rect, no Rect extends outside the buffer, and the   *)
(* Rect areas sum to width * height.                                       *)
C8_GridTilesBuffer ==
    ExplicitGrid =>
        /\ \A k \in 1..Len(rects) :
              /\ IntegerRect(rects[k])
              /\ IntOf(rects[k].x) >= 0 /\ IntOf(rects[k].y) >= 0
              /\ IntOf(rects[k].x) + IntOf(rects[k].w) <= w
              /\ IntOf(rects[k].y) + IntOf(rects[k].h) <= h
        /\ \A px \in 0 .. (w - 1), py \in 0 .. (h - 1) :
              Cardinality({k \in 1..Len(rects) : InRect(px, py, rects[k])}) = 1
        /\ SumAreas(rects, 1) = w * h

---------------------------------------------------------------------------
(* Every explicit line projects onto an integer pixel position.            *)
IntegerProjections ==
    /\ \A k \in 1..Len(config.customGrid.xLines) :
          (config.customGrid.xLines[k] * w) % GridDen = 0
    /\ \A k \in 1..Len(config.customGrid.yLines) :
          (config.customGrid.yLines[k] * h) % GridDen = 0

(* The pixel positions 0, line * size ..., size in ascending order, by     *)
(* rank: the j-th is the value with fewer than j values below it and at    *)
(* least j values at or below it.  It depends on the lines as a multiset.  *)
Ascending(lines, size) ==
    LET vals == <<0>> \o [k \in 1..Len(lines) |-> (lines[k] * size) \div GridDen]
                      \o <<size>>
    IN [j \in 1..Len(vals) |->
          CHOOSE v \in {vals[i] : i \in 1..Len(vals)} :
              /\ Cardinality({i \in 1..Len(vals) : vals[i] < v}) < j
              /\ Cardinality({i \in 1..Len(vals) : vals[i] <= v}) >= j]

Reverse(seq) == [k \in 1..Len(seq) |-> seq[Len(seq) + 1 - k]]

(* C9: with explicit lines of integer pixel projection, detectSegments     *)
(* emits (|xLines|+1) * (|yLines|+1) Rects, row-major over the ascending   *)
(* positions extended with 0 and the full dimension, each spanning one     *)
(* adjacent pair of X and of Y positions, whatever order the caller        *)
(* listed the lines in; a 4x4 buffer cut at 0.5 and 0.5 gives the 2x2      *)
(* Rects at (0,0), (2,0), (0,2), (2,2).                                    *)
C9_GridRectsRowMajor ==
    (ExplicitGrid /\ IntegerProjections) =>
        LET X == Ascending(config.customGrid.xLines, w)
            Y == Ascending(config.customGrid.yLines, h)
            nc == Len(config.customGrid.xLines) + 1
            nr == Len(config.customGrid.yLines) + 1
        IN /\ Len(rects) = nc * nr
           /\ \A r \in 1..nr, c \in 1..nc :
                 rects[(r - 1) * nc + c] =
                     [x |-> Num(X[c]), y |-> Num(Y[r]),
                      w |-> Num(X[c + 1] - X[c]),
                      h |-> Num(Y[r + 1] - Y[r])]
           /\ rects = CustomGridRects(w, h,
                         [use |-> TRUE,
                          xLines |-> Reverse(config.customGrid.xLines),
                          yLines |-> Reverse(config.customGrid.yLines)])
           /\ ( /\ w = 4 /\ h = 4
                /\ Len(config.customGrid.xLines) = 1
                /\ Len(config.customGrid.yLines) = 1
                /\ 2 * config.customGrid.xLines[1] = GridDen
                /\ 2 * config.customGrid.yLines[1] = GridDen )
              => rects = << [x |-> Num(0), y |-> Num(0),
                             w |-> Num(2), h |-> Num(2)],
                            [x |-> Num(2), y |-> Num(0),
                             w |-> Num(2), h |-> Num(2)],
                            [x |-> Num(0), y |-> Num(2),
                             w |-> Num(2), h |-> Num(2)],
                            [x |-> Num(2), y |-> Num(2),
                             w |-> Num(2), h |-> Num(2)] >>

(* Two X lines listed in descending order and one Y line, all strictly     *)
(* inside the buffer: six Rects, none degenerate.                          *)
C9_Witness ==
    /\ ExplicitGrid
    /\ IntegerProjections
    /\ Len(config.customGrid.xLines) = 2
    /\ config.customGrid.xLines[1] > config.customGrid.xLines[2]
    /\ Len(config.customGrid.yLines) = 1
    /\ Len(rects) = 6
    /\ \A k \in 1..Len(rects) : IntOf(rects[k].w) >= 1 /\ IntOf(rects[k].h) >= 1

---------------------------------------------------------------------------
(* The white pixels of the buffer and their bounding box.                  *)
WhitePixels == {i \in Pixels(w, h) : data[i] = White}

MinOf(S) == CHOOSE a \in S : \A b \in S : a <= b

MaxOf(S) == CHOOSE a \in S : \A b \in S : a >= b

(* The boundary scenario: 100 x 100 black, a white 20 x 20 square at       *)
(* (40, 40).                                                               *)
BoundaryScenario ==
    /\ w = 100 /\ h = 100
    /\ data = ScenarioImage(100, 40, 40, 20, 20)

---------------------------------------------------------------------------
(* The subject in the sprite: the foreground pixels of the final mask,     *)
(* each carried to the cell <<x, y>> it occupies once its bounding box is  *)
(* centred in the square sprite, with the source index it comes from.      *)
SubjectCells ==
    LET xs == {XOf(i, w) : i \in Foreground(mask)}
        ys == {YOf(i, w) : i \in Foreground(mask)}
        offX == (sprite.width - BoxW(mask)) \div 2
        offY == (sprite.height - BoxH(mask)) \div 2
    IN {<<XOf(i, w) - MinOf(xs) + offX, YOf(i, w) - MinOf(ys) + offY, i>> :
           i \in Foreground(mask)}

(* The index of the cell <<x, y>> in the sprite's buffer.                  *)
CellIndex(x, y) == y * sprite.width + x

(* The offsets <<dx, dy>> of Manhattan length at most d.                   *)
Ball(d) == {v \in (-d .. d) \X (-d .. d) : Abs(v[1]) + Abs(v[2]) <= d}

(* C11: with borderWidth = b > 0 the border layer (the centred subject     *)
(* mask dilated b times) is exactly the set of sprite pixels at Manhattan  *)
(* distance <= b from some subject pixel; a one-pixel subject with b = 1   *)
(* gives a layer of exactly 5 pixels.                                      *)
C11_BorderIsManhattanBall ==
    (pc = "returned" /\ config.borderWidth > 0) =>
        /\ \A s \in SubjectCells, v \in Ball(config.borderWidth) :
              /\ s[1] + v[1] >= 0 /\ s[1] + v[1] < sprite.width
              /\ s[2] + v[2] >= 0 /\ s[2] + v[2] < sprite.height
        /\ Foreground(arg) =
              {CellIndex(s[1] + v[1], s[2] + v[2]) :
                  s \in SubjectCells, v \in Ball(config.borderWidth)}
        /\ (Count(mask) = 1 /\ config.borderWidth = 1) => Count(arg) = 5

(* The single-pixel subject with borderWidth 1: a layer of 5 pixels.       *)
C11_Witness ==
    /\ pc = "returned"
    /\ config.borderWidth = 1
    /\ Count(mask) = 1
    /\ Count(arg) = 5

---------------------------------------------------------------------------
(* C12: the sprite is strictly binary: every pixel has alpha 0 or 255; a   *)
(* subject pixel carries the RGB of its source pixel, opaque, also under   *)
(* a border; a pixel of the border layer outside the subject is opaque     *)
(* white; every other pixel is transparent.                                *)
C12_OutputIsBinary ==
    pc = "returned" =>
        /\ DOMAIN sprite.pixels = Pixels(sprite.width, sprite.height)
        /\ \A j \in DOMAIN sprite.pixels : sprite.pixels[j][4] \in {0, 255}
        /\ \A s \in SubjectCells :
              sprite.pixels[CellIndex(s[1], s[2])] =
                  <<data[s[3]][1], data[s[3]][2], data[s[3]][3], 255>>
        /\ \A j \in (IF config.borderWidth > 0 THEN Foreground(arg) ELSE {})
                        \ {CellIndex(s[1], s[2]) : s \in SubjectCells} :
              sprite.pixels[j] = OpaqueWhite
        /\ \A j \in (DOMAIN sprite.pixels
                       \ (IF config.borderWidth > 0 THEN Foreground(arg)
                          ELSE {}))
                        \ {CellIndex(s[1], s[2]) : s \in SubjectCells} :
              sprite.pixels[j] = Transparent

(* A bordered sprite whose crop box holds a background pixel: it is white  *)
(* while the subject pixels beside it keep their source colour.            *)
C12_Witness ==
    /\ pc = "returned"
    /\ config.borderWidth > 0
    /\ Count(mask) >= 2
    /\ BoxW(mask) * BoxH(mask) > Count(mask)
    /\ \E s \in SubjectCells :
          sprite.pixels[CellIndex(s[1], s[2])] =
              <<EdgeColour[1], EdgeColour[2], EdgeColour[3], 255>>
    /\ sprite.pixels[0] = Transparent

---------------------------------------------------------------------------
(* q >= 1                                                                  *)
AtLeastOne(q) == q # Zero /\ q.e >= 0

(* The positions of the Rects with w >= 1 and h >= 1, ascending.           *)
ValidPositions(rs) ==
    LET good == {k \in 1..Len(rs) : AtLeastOne(rs[k].w) /\ AtLeastOne(rs[k].h)}
    IN [j \in 1..Cardinality(good) |->
          CHOOSE k \in good : Cardinality({i \in good : i <= k}) = j]

(* C13: sliceImage skips every Rect with w < 1 or h < 1 without an error   *)
(* and allocates no crop for it: the sprites it returns are, in order,     *)
(* the Rects of detectSegments with w >= 1 and h >= 1, each of the Rect's  *)
(* width and height, and every crop canvas is at least 1 x 1.              *)
C13_SliceSkipsDegenerateRects ==
    pc = "sliced" =>
        LET valid == ValidPositions(rects)
        IN /\ sprite.kind = "sprites"
           /\ Len(sprite.list) = Len(valid)
           /\ \A j \in 1..Len(valid) :
                 /\ sprite.list[j].width = rects[valid[j]].w
                 /\ sprite.list[j].height = rects[valid[j]].h
                 /\ AtLeastOne(sprite.list[j].width)
                 /\ AtLeastOne(sprite.list[j].height)
                 /\ sprite.list[j].canvasWidth >= 1
                 /\ sprite.list[j].canvasHeight >= 1

(* A slicing in which a Rect of zero height between two valid Rects is     *)
(* skipped.                                                                *)
C13_Witness ==
    /\ pc = "sliced"
    /\ Len(rects) >= 3
    /\ Len(sprite.list) >= 2
    /\ Len(sprite.list) < Len(rects)
    /\ \E k \in 2 .. (Len(rects) - 1) :
          /\ rects[k].h = Zero
          /\ AtLeastOne(rects[k].w)
          /\ AtLeastOne(rects[k - 1].h) /\ AtLeastOne(rects[k - 1].w)
          /\ AtLeastOne(rects[k + 1].h) /\ AtLeastOne(rects[k + 1].w)

---------------------------------------------------------------------------
(* C14: every Rect detectSegments returns, in every mode and for every     *)
(* buffer size, has integer x, y, w and h.                                 *)
C14_RectsAreIntegers ==
    pc = "detected" => \A k \in 1..Len(rects) : IntegerRect(rects[k])

(* The same statement for the modes other than the even split (explicit    *)
(* lines, whose cuts go through Math.round, and smart mode, whose bounds   *)
(* are pixel coordinates).                                                 *)
C14_HoldsOffEvenSplit ==
    (pc = "detected" /\ (config.mode = "smart" \/ config.customGrid.use)) =>
        \A k \in 1..Len(rects) : IntegerRect(rects[k])

---------------------------------------------------------------------------
(* C15: for every image and tolerance the background of the flood-fill     *)
(* mask lies inside the background of the global-key mask: a pixel that    *)
(* generateFloodFillMask marks 0 is marked 0 by generateGlobalMask at the  *)
(* same tolerance.                                                         *)
C15_FloodBackgroundInGlobal ==
    pc = "flood" =>
        \A i \in Pixels(w, h) :
            mask[i] = 0 =>
                generateGlobalMask(data, w, h, config.tolerance)[i] = 0

(* C15 as amended: the containment holds for every pixel other than the    *)
(* corner seeds; the four corners are background in the flood-fill mask    *)
(* whatever their colour (they are seed positions, marked before any       *)
(* comparison), while the global key keeps a corner whose colour is        *)
(* beyond the threshold.                                                   *)
C15_FloodBackgroundInGlobalOffCorners ==
    pc = "flood" =>
        /\ \A i \in Pixels(w, h) \ Corners(w, h) :
              mask[i] = 0 =>
                  generateGlobalMask(data, w, h, config.tolerance)[i] = 0
        /\ \A i \in Corners(w, h) : mask[i] = 0

(* A flood-fill mask with a non-corner background pixel, a pixel of the    *)
(* background colour that the fill did not reach, and a corner the global  *)
(* key keeps.                                                              *)
C15_Witness ==
    /\ pc = "flood"
    /\ \E i \in Pixels(w, h) \ Corners(w, h) : mask[i] = 0
    /\ \E i \in Pixels(w, h) :
          /\ mask[i] = 1
          /\ generateGlobalMask(data, w, h, config.tolerance)[i] = 0
    /\ \E i \in Corners(w, h) :
          generateGlobalMask(data, w, h, config.tolerance)[i] = 1

---------------------------------------------------------------------------
(* C16: after one pass of erode a pixel is foreground exactly when it was  *)
(* foreground before and none of its 4-connected neighbours inside the     *)
(* image (left, right, above, below in the 2-D grid) was background        *)
(* before; pixels of different rows that are adjacent only in the linear   *)
(* index are not neighbours.                                               *)
C16_ErodePassUsesGridNeighbours ==
    (config.op = "erode" /\ config.passes = 1) =>
        \A i \in Pixels(w, h) :
            mask[i] = 1 <=>
                /\ arg[i] = 1
                /\ \A j \in Pixels(w, h) : Adjacent(i, j, w) => arg[j] = 1

(* The same statement for masks of a single column, where the linear       *)
(* neighbours i - 1 and i + 1 are the pixels above and below.              *)
C16_HoldsForOneColumn ==
    (config.op = "erode" /\ config.passes = 1 /\ w = 1) =>
        \A i \in Pixels(w, h) :
            mask[i] = 1 <=>
                /\ arg[i] = 1
                /\ \A j \in Pixels(w, h) : Adjacent(i, j, w) => arg[j] = 1

---------------------------------------------------------------------------
(* The indices erode and dilate read around pixel i: those of              *)
(* i - 1, i + 1, i - w, i + w that lie inside the mask.                    *)
LinearNeighbours(i) ==
    {n \in {i - 1, i + 1, i - w, i + w} : n >= 0 /\ n < w * h}

(* C17: erosion passes are sequential and each pass is simultaneous:       *)
(* eroding the result of erode(m, q) p more times gives erode(m, q + p),   *)
(* for all p, q >= 1; and one pass clears exactly the foreground pixels    *)
(* that had a background neighbour before the pass: a pixel cleared in     *)
(* the pass does not cause a neighbour to be cleared in the same pass.     *)
C17_ErodePassesCompose ==
    (config.op = "erode" /\ config.passes >= 1) =>
        /\ \A p \in 1..MaxPasses :
              erode(mask, w, h, p) = erode(arg, w, h, config.passes + p)
        /\ config.passes = 1 =>
              \A i \in Pixels(w, h) :
                  mask[i] = 0 <=>
                      \/ arg[i] = 0
                      \/ \E n \in LinearNeighbours(i) : arg[n] = 0

(* One pass that cleared a pixel and kept a neighbour of it whose other    *)
(* neighbours were all foreground; a further pass clears that neighbour.   *)
C17_Witness ==
    /\ config.op = "erode"
    /\ config.passes = 1
    /\ \E i \in Pixels(w, h) :
          /\ mask[i] = 1
          /\ \E n \in LinearNeighbours(i) : arg[n] = 1 /\ mask[n] = 0
          /\ erode(mask, w, h, 1)[i] = 0

---------------------------------------------------------------------------
(* The pixels of the first or last row or column.                          *)
OnBorder(i) ==
    \/ XOf(i, w) = 0 \/ XOf(i, w) = w - 1
    \/ YOf(i, w) = 0 \/ YOf(i, w) = h - 1

Background(m) == {i \in DOMAIN m : m[i] = 0}

(* C18: after fillInternalHoles a pixel is background exactly when it was  *)
(* background before and a path of up/down/left/right steps through        *)
(* background pixels joins it to a background pixel of the image border;   *)
(* every foreground pixel stays foreground.                                *)
C18_FillKeepsBorderConnectedBackground ==
    config.op = "fill" =>
        LET open == Reach({i \in Background(arg) : OnBorder(i)},
                          Background(arg), w)
        IN /\ \A i \in Pixels(w, h) : mask[i] = 0 <=> i \in open
           /\ Foreground(arg) \subseteq Foreground(mask)

(* A fill that closed a hole of two pixels and left the background on the  *)
(* border.                                                                 *)
C18_Witness ==
    /\ config.op = "fill"
    /\ \E i, j \in Pixels(w, h) :
          /\ i # j
          /\ ~OnBorder(i) /\ ~OnBorder(j)
          /\ arg[i] = 0 /\ arg[j] = 0
          /\ mask[i] = 1 /\ mask[j] = 1
    /\ \E i \in Pixels(w, h) : OnBorder(i) /\ mask[i] = 0

---------------------------------------------------------------------------
EvenSplit ==
    pc = "detected" /\ config.mode = "grid" /\ ~config.customGrid.use

(* The even split of rows x cols cells: the count, the row-major order,    *)
(* the cell size, and each cell ending (x + w, y + h as JavaScript adds    *)
(* them) where the next one starts, the last at width / height.            *)
EvenCellsContiguous(rows, cols) ==
    /\ Len(rects) = rows * cols
    /\ \A r \in 0 .. (rows - 1), c \in 0 .. (cols - 1) :
          LET k == r * cols + c + 1
          IN /\ rects[k].w = Quot(w, cols)
             /\ rects[k].h = Quot(h, rows)
             /\ c = 0 => rects[k].x = Zero
             /\ r = 0 => rects[k].y = Zero
             /\ c < cols - 1 =>
                   /\ rects[k + 1].x = Plus(rects[k].x, rects[k].w)
                   /\ rects[k + 1].y = rects[k].y
             /\ c = cols - 1 => Plus(rects[k].x, rects[k].w) = Num(w)
             /\ r < rows - 1 =>
                   rects[k + cols].y = Plus(rects[k].y, rects[k].h)
             /\ r = rows - 1 => Plus(rects[k].y, rects[k].h) = Num(h)

(* C19: in grid mode without customGrid detectSegments emits               *)
(* max(1, rows) * max(1, cols) Rects in row-major order, all of size       *)
(* (width / cols) x (height / rows), adjacent cells contiguous: each cell  *)
(* starts exactly where the one before it ends, in columns and in rows,    *)
(* and the last column / row ends at width / height.                       *)
C19_EvenSplitContiguous ==
    EvenSplit => EvenCellsContiguous(Max(1, config.rows), Max(1, config.cols))

(* The same statement for splits of at most five rows and columns.         *)
C19_HoldsUpToFiveCells ==
    (EvenSplit /\ config.rows <= 5 /\ config.cols <= 5) =>
        EvenCellsContiguous(Max(1, config.rows), Max(1, config.cols))

---------------------------------------------------------------------------
(* C20: in smart mode, for every tolerance in 0..100, a pixel is content   *)
(* exactly when the Euclidean RGB distance between it and the pixel at     *)
(* (0,0) is greater than tolerance * 3 (squared: greater than              *)
(* (tolerance * 3)^2); with tolerance 0 every pixel whose colour differs   *)
(* from the reference is content.                                          *)
C20_ContentIsDistanceTest ==
    (pc = "detected" /\ config.mode = "smart") =>
        /\ \A i \in Pixels(w, h) :
              mask[i] = 1 <=>
                  DistSq(data[i], data[0]) > Sq(config.tolerance * 3)
        /\ config.tolerance = 0 =>
              \A i \in Pixels(w, h) : mask[i] = 1 <=> data[i] # data[0]

(* The same statement for the tolerances 1..100.                           *)
C20_HoldsForPositiveTolerance ==
    (pc = "detected" /\ config.mode = "smart" /\ config.tolerance >= 1) =>
        \A i \in Pixels(w, h) :
            mask[i] = 1 <=>
                DistSq(data[i], data[0]) > Sq(config.tolerance * 3)

---------------------------------------------------------------------------
(* The content pixels of the buffer, as the call classified them.          *)
ContentPixels == {i \in Pixels(w, h) : mask[i] = 1}

(* The maximal 4-connected sets of content pixels.                         *)
ContentComponents == {Reach({i}, ContentPixels, w) : i \in ContentPixels}

(* C21: in smart mode the labelled components are exactly the maximal      *)
(* 4-connected sets of content pixels: every content pixel is counted in   *)
(* exactly one component, two content pixels share a component iff a path  *)
(* of up/down/left/right steps through content pixels joins them, and the  *)
(* tracked bounding box of a component is the tight box of its pixels.     *)
C21_ComponentsAreFourConnected ==
    (pc = "detected" /\ config.mode = "smart") =>
        /\ {arg[k].pixels : k \in 1..Len(arg)} = ContentComponents
        /\ \A i \in ContentPixels :
              Cardinality({k \in 1..Len(arg) : i \in arg[k].pixels}) = 1
        /\ \A k \in 1..Len(arg) :
              /\ arg[k].count = Cardinality(arg[k].pixels)
              /\ arg[k].minX = MinOf({XOf(i, w) : i \in arg[k].pixels})
              /\ arg[k].maxX = MaxOf({XOf(i, w) : i \in arg[k].pixels})
              /\ arg[k].minY = MinOf({YOf(i, w) : i \in arg[k].pixels})
              /\ arg[k].maxY = MaxOf({YOf(i, w) : i \in arg[k].pixels})

(* The same statement for every width but 2.                               *)
C21_HoldsOffWidthTwo ==
    (pc = "detected" /\ config.mode = "smart" /\ w # 2) =>
        /\ {arg[k].pixels : k \in 1..Len(arg)} = ContentComponents
        /\ \A i \in ContentPixels :
              Cardinality({k \in 1..Len(arg) : i \in arg[k].pixels}) = 1
        /\ \A k \in 1..Len(arg) :
              /\ arg[k].count = Cardinality(arg[k].pixels)
              /\ arg[k].minX = MinOf({XOf(i, w) : i \in arg[k].pixels})
              /\ arg[k].maxX = MaxOf({XOf(i, w) : i \in arg[k].pixels})
              /\ arg[k].minY = MinOf({YOf(i, w) : i \in arg[k].pixels})
              /\ arg[k].maxY = MaxOf({YOf(i, w) : i \in arg[k].pixels})

---------------------------------------------------------------------------
(* The labelled components that passed the area test, in discovery order:  *)
(* the k-th Rect is built from the k-th of them.                           *)
KeptComponents == SelectSeq(arg, LAMBDA c : c.count > minArea)

(* C22: every Rect emitted in smart mode lies inside the buffer and        *)
(* contains every pixel of the component it was built from.                *)
C22_SmartRectsInsideAndCovering ==
    (pc = "detected" /\ config.mode = "smart") =>
        /\ Len(rects) = Len(KeptComponents)
        /\ \A k \in 1..Len(rects) :
              LET r == rects[k]
                  c == KeptComponents[k]
              IN /\ IsInt(r.x) /\ IsInt(r.y) /\ IsInt(r.w) /\ IsInt(r.h)
                 /\ IntOf(r.x) >= 0 /\ IntOf(r.y) >= 0
                 /\ IntOf(r.x) + IntOf(r.w) <= w
                 /\ IntOf(r.y) + IntOf(r.h) <= h
                 /\ IntOf(r.x) <= c.minX /\ IntOf(r.y) <= c.minY
                 /\ IntOf(r.x) + IntOf(r.w) > c.maxX
                 /\ IntOf(r.y) + IntOf(r.h) > c.maxY
                 /\ \A i \in c.pixels : InRect(XOf(i, w), YOf(i, w), r)

(* A rectangle near the left and bottom edges: its Rect is clamped at      *)
(* x = 0 and ends at the bottom edge of the buffer.                        *)
C22_Witness ==
    /\ pc = "detected"
    /\ config.mode = "smart"
    /\ Len(rects) = 1
    /\ rects[1].x = Zero
    /\ IntOf(rects[1].y) + IntOf(rects[1].h) = h
    /\ KeptComponents[1].minX = 5
    /\ KeptComponents[1].maxY >= 97

---------------------------------------------------------------------------
(* The padding the call used.                                              *)
UsedPad == IF config.trim = 0 THEN 10 ELSE config.trim

(* A component at least pad pixels away from every edge of the buffer.     *)
AwayFromEdges(c, pad) ==
    /\ c.minX >= pad /\ c.minY >= pad
    /\ c.maxX + pad <= w - 1 /\ c.maxY + pad <= h - 1

(* C23: a surviving component at least pad pixels away from every buffer   *)
(* edge gets a Rect that covers exactly the columns minX-pad .. maxX+pad   *)
(* and the rows minY-pad .. maxY+pad: pad pixels of margin on each of the  *)
(* four sides.                                                             *)
C23_PaddingOnAllFourSides ==
    (pc = "detected" /\ config.mode = "smart") =>
        \A k \in 1..Len(rects) :
            LET r == rects[k]
                c == KeptComponents[k]
            IN AwayFromEdges(c, UsedPad) =>
                  /\ IntOf(r.x) = c.minX - UsedPad
                  /\ IntOf(r.y) = c.minY - UsedPad
                  /\ IntOf(r.x) + IntOf(r.w) - 1 = c.maxX + UsedPad
                  /\ IntOf(r.y) + IntOf(r.h) - 1 = c.maxY + UsedPad

(* What holds instead: pad pixels of margin on the left and on the top,    *)
(* pad - 1 on the right and at the bottom.                                 *)
C23_FarMarginIsOneShort ==
    (pc = "detected" /\ config.mode = "smart") =>
        \A k \in 1..Len(rects) :
            LET r == rects[k]
                c == KeptComponents[k]
            IN AwayFromEdges(c, UsedPad) =>
                  /\ IntOf(r.x) = c.minX - UsedPad
                  /\ IntOf(r.y) = c.minY - UsedPad
                  /\ IntOf(r.x) + IntOf(r.w) - 1 = c.maxX + UsedPad - 1
                  /\ IntOf(r.y) + IntOf(r.h) - 1 = c.maxY + UsedPad - 1

---------------------------------------------------------------------------
(* C28: the padding applied in smart mode equals the configured trim, for  *)
(* every trim in 0..50: each Rect is the component's bounding box widened  *)
(* by trim and clamped to the buffer, and with trim = 0 it starts at       *)
(* (minX, minY), no padding being added.                                   *)
C28_PaddingEqualsTrim ==
    (pc = "detected" /\ config.mode = "smart") =>
        \A k \in 1..Len(rects) :
            LET r == rects[k]
                c == KeptComponents[k]
            IN /\ IntOf(r.x) = Max(0, c.minX - config.trim)
               /\ IntOf(r.y) = Max(0, c.minY - config.trim)
               /\ IntOf(r.w) = Min(w, c.maxX + config.trim) - IntOf(r.x)
               /\ IntOf(r.h) = Min(h, c.maxY + config.trim) - IntOf(r.y)

(* The same statement for the trims 1..50.                                 *)
C28_HoldsForPositiveTrim ==
    (pc = "detected" /\ config.mode = "smart" /\ config.trim >= 1) =>
        \A k \in 1..Len(rects) :
            LET r == rects[k]
                c == KeptComponents[k]
            IN /\ IntOf(r.x) = Max(0, c.minX - config.trim)
               /\ IntOf(r.y) = Max(0, c.minY - config.trim)
               /\ IntOf(r.w) = Min(w, c.maxX + config.trim) - IntOf(r.x)
               /\ IntOf(r.h) = Min(h, c.maxY + config.trim) - IntOf(r.y)

---------------------------------------------------------------------------
(* How many of the four seed positions are pixel i.                        *)
SeedCount(i) == Cardinality({k \in 1..4 : CornerSeeds(w, h)[k] = i})

RECURSIVE SumPops(_)
SumPops(n) == IF n < 0 THEN 0 ELSE arg.pops[n] + SumPops(n - 1)

(* C24: generateFloodFillMask terminates for every image size and every    *)
(* tolerance, and its traversal pops each pixel at most once, so that the  *)
(* number of pixel visits is at most width * height.                       *)
C24_FloodPopsEachPixelOnce ==
    /\ [](pc \in {"flooding", "flood"} =>
            /\ \A i \in Pixels(w, h) : arg.pops[i] <= 1
            /\ SumPops(w * h - 1) <= w * h)
    /\ <>(pc = "flood")

(* C24 as amended: the call terminates for every image size and every      *)
(* tolerance; a pixel that is not a seed is popped at most once, a corner  *)
(* is popped once for each time it occurs among the four seeds (four       *)
(* times in a 1 x 1 image, twice in an image of one row or one column),    *)
(* and the number of visits is at most width * height + 3; when the call   *)
(* returns it agrees with the mask computed in one piece.                  *)
C24_FloodTerminatesPopsBounded ==
    /\ [](pc \in {"flooding", "flood"} =>
            /\ \A i \in Pixels(w, h) :
                  arg.pops[i] <= (IF i \in Corners(w, h)
                                  THEN SeedCount(i) ELSE 1)
            /\ SumPops(w * h - 1) <= w * h + 3
            /\ (w >= 2 /\ h >= 2) => SumPops(w * h - 1) <= w * h)
    /\ [](pc = "flood" =>
            /\ \A i \in Pixels(w, h) :
                  arg.pops[i] = (IF i \in Corners(w, h) THEN SeedCount(i)
                                 ELSE 1 - mask[i])
            /\ mask = generateFloodFillMask(data, w, h, config.tolerance))
    /\ <>(pc = "flood")

(* A 1 x 1 image: the call has returned after popping its pixel four       *)
(* times.                                                                  *)
C24_Witness ==
    /\ pc = "flood"
    /\ w = 1 /\ h = 1
    /\ arg.pops[0] = 4

---------------------------------------------------------------------------
(* C25: erode and dilate mutate the mask they are handed in place: after   *)
(* erode(mask, p) or dilate(mask, p) with p >= 1 the array that was        *)
(* passed in holds the same contents as the returned mask.                 *)
C25_MorphologyMutatesInPlace ==
    (config.op \in {"erode", "dilate"} /\ config.passes >= 1) =>
        config.handed = mask

(* What holds instead: erode and dilate leave the array they are handed    *)
(* as it was and return another one; fillInternalHoles alone writes the    *)
(* array it is handed.                                                     *)
C25_OnlyFillMutatesInPlace ==
    /\ config.op \in {"erode", "dilate"} => config.handed = arg
    /\ config.op = "fill" => config.handed = mask

---------------------------------------------------------------------------
(* The side of the output square of the mask at hand.                      *)
OutputSide == FinalSize(CropBounds(mask, w, h), config.borderWidth)

(* Cell j of a square of the given side lies at least d pixels away from   *)
(* each of its four edges.                                                 *)
AwayFromOutputEdges(j, d, side) ==
    /\ j % side >= d /\ j % side <= side - 1 - d
    /\ j \div side >= d /\ j \div side <= side - 1 - d

(* The cells <<x, y>> of the output square the subject occupies once its   *)
(* bounding box is centred.                                                *)
PlacedCells ==
    LET xs == {XOf(i, w) : i \in Foreground(mask)}
        ys == {YOf(i, w) : i \in Foreground(mask)}
        offX == (OutputSide - BoxW(mask)) \div 2
        offY == (OutputSide - BoxH(mask)) \div 2
    IN {<<XOf(i, w) - MinOf(xs) + offX, YOf(i, w) - MinOf(ys) + offY>> :
           i \in Foreground(mask)}

(* The indices of the cells within Manhattan distance d of a cell of       *)
(* `cells`, in a square of the given side.                                 *)
CellsNear(cells, d, side) ==
    {j \in Pixels(side, side) :
        \E s \in cells : Abs((j % side) - s[1]) + Abs((j \div side) - s[2]) <= d}

(* C26: in every returned sprite every opaque pixel, subject or border,    *)
(* lies at least 20 pixels away from each of the four edges of the output  *)
(* square, for every borderWidth; the dilation of the border never         *)
(* reaches the first or the last column and never spills from the end of   *)
(* a row into the start of the next: after p passes the layer is the set   *)
(* of cells within Manhattan distance p of the subject.                    *)
C26_OpaquePixelsKeepTwentyFromEdges ==
    /\ (pc = "dilating" /\ arg.curr # None) =>
          LET side == OutputSide
              layer == {j \in DOMAIN arg.curr : arg.curr[j] = 1}
          IN /\ layer = CellsNear(PlacedCells, arg.p, side)
             /\ \A j \in layer : AwayFromOutputEdges(j, 20, side)
    /\ pc = "returned" =>
          LET side == sprite.width
          IN \A j \in DOMAIN sprite.pixels :
                sprite.pixels[j][4] # 0 => AwayFromOutputEdges(j, 20, side)

(* A border of width 20 around a subject as wide as it is high: the        *)
(* sprite holds an opaque pixel in column 20, exactly 20 pixels from the   *)
(* left edge.                                                              *)
C26_Witness ==
    /\ pc = "returned"
    /\ config.borderWidth = 20
    /\ \E j \in DOMAIN sprite.pixels :
          /\ sprite.pixels[j] = OpaqueWhite
          /\ j % sprite.width = 20

---------------------------------------------------------------------------
(* C27: with smartFill on, the mask processSticker crops and composites    *)
(* has no enclosed background, for every erosion value: after              *)
(* fillInternalHoles and erode every background pixel is joined to the     *)
(* image border by a path of up/down/left/right steps through background   *)
(* pixels.                                                                 *)
C27_NoEnclosedBackgroundAfterErosion ==
    (pc \in {"eroded", "done", "error"} /\ config.smartFill) =>
        Reach({i \in Background(mask) : OnBorder(i)}, Background(mask), w)
            = Background(mask)

(* An erosion after a fill that turned a pixel off the image border into   *)
(* background and left some foreground.                                    *)
C27_Witness ==
    /\ pc = "eroded"
    /\ config.smartFill
    /\ config.erosion >= 1
    /\ Foreground(mask) # {}
    /\ \E i \in Background(mask) : ~OnBorder(i)

---------------------------------------------------------------------------
(* The list with its k-th element left out.                                *)
RemoveAt(seq, k) == SubSeq(seq, 1, k - 1) \o SubSeq(seq, k + 1, Len(seq))

IsAscending(seq) == \A k \in 1 .. (Len(seq) - 1) : seq[k] <= seq[k + 1]

(* Since the mouse-down only the grabbed line of the list `now` has        *)
(* moved: the list has the length it had, and leaving one line out of it   *)
(* gives the lines that were not grabbed, where they were.                 *)
OnlyGrabbedMoved(now, before, index) ==
    /\ Len(now) = Len(before)
    /\ \E k \in 1..Len(now) : RemoveAt(now, k) = RemoveAt(before, index + 1)

(* A drag is under way that began with a mouse-down on a line of the       *)
(* list.                                                                   *)
GrabbedALine ==
    /\ arg # None
    /\ arg.grabbed.index <
          Len(IF arg.grabbed.type = "x" THEN arg.xLines ELSE arg.yLines)

(* C30: in grid mode, between a mouse-down on a grid line and the next     *)
(* mouse-up, the mouse moves change only the position of the line that     *)
(* was grabbed, also when it is dragged past another line of its axis:     *)
(* every other line stays where it was, and the list stays sorted          *)
(* ascending, of the same length, with all values in [0, 1].               *)
C30_DragMovesOnlyGrabbedLine ==
    (pc = "cutter" /\ config.dragging # NoLine /\ GrabbedALine) =>
        /\ IsAscending(config.xLines) /\ IsAscending(config.yLines)
        /\ \A k \in 1..Len(config.xLines) :
              config.xLines[k] >= 0 /\ config.xLines[k] <= CanvasSide
        /\ \A k \in 1..Len(config.yLines) :
              config.yLines[k] >= 0 /\ config.yLines[k] <= CanvasSide
        /\ IF arg.grabbed.type = "x"
           THEN /\ OnlyGrabbedMoved(config.xLines, arg.xLines,
                                    arg.grabbed.index)
                /\ config.yLines = arg.yLines
           ELSE /\ OnlyGrabbedMoved(config.yLines, arg.yLines,
                                    arg.grabbed.index)
                /\ config.xLines = arg.xLines

(* What holds of every state of the component: both lists are sorted       *)
(* ascending with all values in [0, 1], and a drag leaves the lines of     *)
(* the other axis alone.                                                   *)
C30_ListsStaySortedInRange ==
    pc = "cutter" =>
        /\ IsAscending(config.xLines) /\ IsAscending(config.yLines)
        /\ \A k \in 1..Len(config.xLines) :
              config.xLines[k] >= 0 /\ config.xLines[k] <= CanvasSide
        /\ \A k \in 1..Len(config.yLines) :
              config.yLines[k] >= 0 /\ config.yLines[k] <= CanvasSide
        /\ (config.dragging # NoLine /\ arg # None) =>
              IF arg.grabbed.type = "x" THEN config.yLines = arg.yLines
              ELSE config.xLines = arg.xLines

---------------------------------------------------------------------------
(* No effect is outstanding, no timer is set and no call of                *)
(* detectSegments is pending.                                              *)
Quiescent ==
    /\ ~arg.dirty
    /\ \A k \in 1..Len(arg.runs) :
          arg.runs[k].timer # "pending" /\ arg.runs[k].call # "pending"

(* C29: for every interleaving of option changes, timers and completions   *)
(* of detectSegments calls, a result is written to detectedRects only by   *)
(* the newest run of the effect, never by a detection started for older    *)
(* options once a newer run has begun; and when all timers and pending     *)
(* calls have finished detectedRects holds the result computed for the     *)
(* latest options.                                                         *)
C29_OnlyLatestDetectionIsWritten ==
    /\ [][rects' # rects =>
            rects'.options = arg.runs[Len(arg.runs)].options]_vars
    /\ [](Quiescent => rects.options = config.options)

(* All is finished after three option changes: the detection of an         *)
(* earlier run completed after its cleanup and was dropped, and            *)
(* detectedRects holds the result for the latest options.                  *)
C29_Witness ==
    /\ pc = "detect"
    /\ Quiescent
    /\ config.options = MaxChanges
    /\ rects.options = config.options
    /\ \E k \in 1..Len(arg.runs) :
          /\ ~arg.runs[k].active
          /\ arg.runs[k].call = "done"

=============================================================================
